---- MODULE Spec2Model ----
\* Model of the LiveKit WebRTC source element
\* (net/webrtc/src/webrtcsrc/livekitwebrtcsrc/imp.rs): offer handling, answer
\* creation, stream-id derivation, source pad creation and routing of the
\* pads that the subscriber webrtcbin adds.
EXTENDS Integers, Sequences, FiniteSets, TLC

\* ---------------------------------------------------------------------------
\* Bounds
\* ---------------------------------------------------------------------------
MaxOffers == 2      \* session-description events delivered in one behaviour
MaxTracks == 2      \* pads added by the subscriber webrtcbin in one behaviour
MaxPrepares == 1    \* NullToReady transitions in one behaviour
MaxMline == 3       \* largest mline index handed to get_stream_id directly
MaxThreads == 2

MaxSignallerErrors == 1  \* error events of the signaller in one behaviour

\* ---------------------------------------------------------------------------
\* Program constants
\* ---------------------------------------------------------------------------
None == "None"

RTP_TWCC_URI == "http://www.ietf.org/id/draft-holmer-rmcat-transport-wide-cc-extensions-01"

OTHER_EXT_URI == "urn:ietf:params:rtp-hdrext:sdes:mid"

session_id == "-"

RTP_NAME == "application/x-rtp"

VIDEO_CAPS == "video/x-raw"

AUDIO_CAPS == "audio/x-raw"

U16 == 65536

\* ---------------------------------------------------------------------------
\* Strings that the code inspects by prefix are sequences of characters.
\* ---------------------------------------------------------------------------
\* Variant: the key is compared with the prefix for equality
starts_with_equal(key, prefix) == key = prefix

starts_with(key, prefix) ==
    /\ Len(key) >= Len(prefix)
    /\ SubSeq(key, 1, Len(prefix)) = prefix

P_rtcp == <<"r","t","c","p","-">>

P_extmap == <<"e","x","t","m","a","p","-">>

K_media == <<"m","e","d","i","a">>

K_encoding_name == <<"e","n","c","o","d","i","n","g","-","n","a","m","e">>

K_rtx_time == <<"r","t","x","-","t","i","m","e">>

K_rtcp_fb_nack == <<"r","t","c","p","-","f","b","-","n","a","c","k">>

K_rtcp_fb_twcc == <<"r","t","c","p","-","f","b","-","t","r","a","n","s","p","o","r","t","-","c","c">>

K_extmap_1 == <<"e","x","t","m","a","p","-","1">>

K_extmap_2 == <<"e","x","t","m","a","p","-","2">>

K_extmap_3 == <<"e","x","t","m","a","p","-","3">>

K_a_mid == <<"a","-","m","i","d">>

\* glib::Value of the two types the code distinguishes with value.get::<String>()
Str(v) == [t |-> "str", v |-> v]

Arr(v) == [t |-> "arr", v |-> v]

\* gst::Structure::extend: fields of `fields` are set on `s`, replacing equal keys
extend(s, fields) ==
    [k \in (DOMAIN s) \cup (DOMAIN fields) |->
        IF k \in DOMAIN fields THEN fields[k] ELSE s[k]]

EmptyFields == [k \in {} |-> None]

\* Option<T>: the empty sequence is None, a one-element sequence is Some(v)
NoneOpt == <<>>

Some(v) == <<v>>

is_some(o) == Len(o) = 1

unwrap(o) == o[1]

Restrict(f, D) == [k \in D |-> f[k]]

\* ---------------------------------------------------------------------------
\* Signallers: whether the object declares a String property "uri", and its value
\* ---------------------------------------------------------------------------
SigNoUri == [has_uri |-> FALSE, uri |-> None]

SigUriUnset == [has_uri |-> TRUE, uri |-> None]

SigUriA == [has_uri |-> TRUE, uri |-> "wss://a"]

SigUriB == [has_uri |-> TRUE, uri |-> "wss://b"]

Signallers == {SigNoUri, SigUriUnset, SigUriA, SigUriB}

\* glib::Checksum (SHA-256) of the identity sources used here, as cs.string()
\* returns it: 64 lowercase hexadecimal characters.
Sha256Hex(data) ==
    CASE data = "-" -> "3973e022e93220f9212c18d0d0c543ae7c309e46640da93a4a0314de999f5112"
      [] data = "wss://a" -> "0bf99c67f52ce2f93669891a623b46f55d2e3b408842db060384c1b119d649bf"
      [] data = "wss://b" -> "f3b25da6ced1c26da1219b8a8804fa84709930c26d2afc4a99420bf1150ba12d"

Panic == "PANIC"

\* Variant: the mline index is left out of the formatted id
format_stream_id_no_index(digest, mline) == digest \o ":"

\* format!("{}:{mline}", cs.string().unwrap())
format_stream_id(digest, mline) == digest \o ":" \o ToString(mline)

\* get_stream_id: None when neither a transceiver nor an mline is given,
\* Panic when the signaller has a "uri" property whose value is unset.
get_stream_id(signaller, transceiver, mline) ==
    LET m == IF is_some(transceiver)
             THEN Some(unwrap(transceiver).mlineindex)
             ELSE mline
    IN  IF ~is_some(m) THEN None
        ELSE IF signaller.has_uri
             THEN IF signaller.uri = None
                  THEN Panic
                  ELSE format_stream_id(Sha256Hex(signaller.uri), unwrap(m))
             ELSE format_stream_id(Sha256Hex(session_id), unwrap(m))

\* ---------------------------------------------------------------------------
\* Media lines of an offer. `formats` holds, for each format of the line, the
\* caps that caps_from_media yields (NoneOpt when the format is not a payload
\* type or has no caps); `attributes` holds the fields that attributes_to_caps
\* adds, `attributes_ok` whether that call succeeds.
\* ---------------------------------------------------------------------------
PT_opus ==
    (K_media :> Str("audio")) @@ (K_encoding_name :> Str("OPUS"))
       @@ (K_rtcp_fb_twcc :> Str("true"))

PT_vp8 ==
    (K_media :> Str("video")) @@ (K_encoding_name :> Str("VP8"))
       @@ (K_rtcp_fb_nack :> Str("true")) @@ (K_rtx_time :> Str("125"))

PT_h266 == (K_media :> Str("video")) @@ (K_encoding_name :> Str("H266"))

PT_no_name == (K_media :> Str("video")) @@ (K_rtx_time :> Str("125"))

PT_app_opus == (K_media :> Str("application")) @@ (K_encoding_name :> Str("OPUS"))

Attrs_twcc ==
    (K_extmap_1 :> Str(RTP_TWCC_URI)) @@ (K_extmap_2 :> Str(OTHER_EXT_URI))
       @@ (K_a_mid :> Str("0"))

Attrs_twcc_directed ==
    (K_extmap_3 :> Arr(<<"recvonly", RTP_TWCC_URI, "">>)) @@ (K_a_mid :> Str("1"))

Attrs_other == (K_extmap_2 :> Str(OTHER_EXT_URI))

L_opus ==
    [media |-> "audio", formats |-> <<Some(PT_opus)>>,
     attributes |-> Attrs_twcc, attributes_ok |-> TRUE]

L_opus_plain ==
    [media |-> "audio", formats |-> <<Some(PT_opus)>>,
     attributes |-> Attrs_other, attributes_ok |-> TRUE]

L_h266 ==
    [media |-> "video", formats |-> <<Some(PT_h266)>>,
     attributes |-> Attrs_twcc, attributes_ok |-> TRUE]

L_vp8 ==
    [media |-> "video", formats |-> <<NoneOpt, Some(PT_h266), Some(PT_vp8), Some(PT_no_name)>>,
     attributes |-> Attrs_twcc_directed, attributes_ok |-> TRUE]

L_app ==
    [media |-> "application", formats |-> <<Some(PT_app_opus)>>,
     attributes |-> Attrs_other, attributes_ok |-> TRUE]

L_data ==
    [media |-> "application", formats |-> <<NoneOpt>>,
     attributes |-> EmptyFields, attributes_ok |-> TRUE]

L_bad_attributes ==
    [media |-> "audio", formats |-> <<Some(PT_opus)>>,
     attributes |-> Attrs_twcc, attributes_ok |-> FALSE]

MediaLines == {L_opus, L_opus_plain, L_h266, L_vp8, L_app, L_data, L_bad_attributes}

AttributeSets == {Attrs_twcc, Attrs_twcc_directed, Attrs_other, EmptyFields}

\* The media lines handed to the payload filter directly
FilterLines == {[l EXCEPT !.attributes = a] : l \in MediaLines, a \in AttributeSets}

Offer(medias) == [type |-> "offer", medias |-> medias]

Offers ==
    { Offer(<<L_opus, L_h266>>),
      Offer(<<L_vp8, L_opus_plain, L_app, L_bad_attributes>>) }

\* ---------------------------------------------------------------------------
\* Payload filtering of handle_offer
\* ---------------------------------------------------------------------------
\* s.get::<&str>("encoding-name").ok()
get_str(s, key) ==
    IF key \in DOMAIN s /\ s[key].t = "str" THEN s[key].v ELSE None

\* The filter_map closures over one format of a media line: NoneOpt when the
\* payload is dropped, else Some(filtered structure).
filter_payload(media, mediacaps, codec_names) ==
    IF ~is_some(mediacaps) THEN NoneOpt
    ELSE LET s == unwrap(mediacaps)
             name == get_str(s, K_encoding_name)
         IN  IF name = None \/ name \notin codec_names THEN NoneOpt
             ELSE LET filtered_s ==
                          [name |-> RTP_NAME,
                           fields |-> Restrict(s, {k \in DOMAIN s : ~starts_with(k, P_rtcp)})]
                  IN  IF ~media.attributes_ok THEN NoneOpt
                      ELSE LET s2 == extend(s, media.attributes)
                               twcc == {k \in DOMAIN s2 :
                                           /\ starts_with(k, P_extmap)
                                           /\ s2[k].t = "str"
                                           /\ s2[k].v = RTP_TWCC_URI}
                           IN  Some([filtered_s EXCEPT
                                        !.fields = extend(@, Restrict(s2, twcc))])

\* The caps collected for one media line: the surviving payloads, in order
RECURSIVE filter_formats(_, _, _)
filter_formats(media, formats, codec_names) ==
    IF formats = <<>> THEN <<>>
    ELSE filter_payload(media, Head(formats), codec_names)
            \o filter_formats(media, Tail(formats), codec_names)

\* Variant: only the first format of the line is looked at
media_caps_first_format(media, codec_names) ==
    filter_formats(media, SubSeq(media.formats, 1, 1), codec_names)

media_caps(media, codec_names) == filter_formats(media, media.formats, codec_names)

\* ---------------------------------------------------------------------------
\* Codec registry and settings
\* ---------------------------------------------------------------------------
AudioCodecs == <<"OPUS">>

VideoCodecs == <<"VP8", "H264">>

\* The sets of codec names for which a decoder is installed
DecoderSets == { {"OPUS", "VP8", "H264"} }

\* Every set of installed decoders, for the direct payload filtering
AllDecoderSets == SUBSET {"OPUS", "VP8", "H264"}

with_decoder(codecs, decoders) == SelectSeq(codecs, LAMBDA c : c \in decoders)

\* Settings::default, for a given set of installed decoders and the signaller
\* given at construction
DefaultSettings(signaller, decoders) ==
    [signaller |-> signaller,
     audio_codecs |-> with_decoder(AudioCodecs, decoders),
     video_codecs |-> with_decoder(VideoCodecs, decoders)]

all_codec_names(s) ==
    {s.video_codecs[i] : i \in DOMAIN s.video_codecs}
        \cup {s.audio_codecs[i] : i \in DOMAIN s.audio_codecs}

\* ---------------------------------------------------------------------------
\* State
\* ---------------------------------------------------------------------------
VARIABLES
    gst_state,          \* the element's current state
    settings,           \* Settings: signaller, audio_codecs, video_codecs
    signaller_state,    \* State::signaller_state
    signaller_calls,    \* the last two of the calls of start() and stop()
    element_bins,       \* the inner bins that were added to the element
    consumers,          \* legs announced to the signaller with consumer-added
    in_flight,          \* a session-description event emitted and not yet handled
    publisher_pc,       \* State::publisher_pc, Option of the leg's identity
    subscriber_pc,      \* State::subscriber_pc, Option of the leg's identity
    n_video_pads,       \* AtomicU16
    n_audio_pads,       \* AtomicU16
    src_pads,           \* the element's source pads, in the order added
    transceivers,       \* receive legs requested from the subscriber webrtcbin
    remote_description, \* last description set as remote on the subscriber leg
    local_description,  \* last description set as local on the subscriber leg
    promises,           \* create-answer promises not yet fulfilled, oldest first
    sent_sdp,           \* descriptions sent through the signaller
    errors,             \* element errors posted on the bus
    filter_requests,    \* emissions of request-encoded-filter
    branches,           \* what handle_webrtc_src_pad built for each webrtcbin pad
    panicked,           \* a handler panicked
    n_prepares,         \* NullToReady transitions so far
    n_offers,           \* session-description events so far
    n_pads,             \* source pads created so far (gives pads an identity)
    last_reply,         \* the reply that on_answer_created got in the last step, if any
    sid_calls,          \* results of the last two direct get_stream_id calls
    flt_call,           \* input and result of the last direct payload filtering
    ice_events,         \* what was done with each candidate, remote or local
    prop_log,           \* the codec lists last written, and the last value read back
    locks,              \* the owner of the settings mutex and of the state mutex
    thread_pc,          \* where each thread is in the operation it runs
    round,              \* where handle_offer and on_answer_created are, run step by step
    handlers,           \* State::signaller_signals and the closures connected to each signaller
    sig_events,         \* the signals emitted by signaller objects and the closures they ran
    last_change,        \* the last change_state call: transition, parent result, return value
    loop_gst_state,     \* loopfilesrcbin: the state of the element
    loop_settings,      \* loopfilesrcbin: Settings
    loop_state,         \* loopfilesrcbin: Option<State>
    loop_locks,         \* loopfilesrcbin: the owner of the settings mutex and of the state mutex
    loop_pc,            \* loopfilesrcbin: where each thread is in the operation it runs
    add_fragment,       \* loopfilesrcbin: the add-fragment emissions on splitmuxsrc elements
    parent_messages,    \* loopfilesrcbin: the messages given to parent_handle_message
    loop_handled,       \* loopfilesrcbin: the messages handle_message has returned from
    loop_read,          \* loopfilesrcbin: the last value property() returned
    loop_nested,        \* loopfilesrcbin: the (held, taken) pairs of nested lock acquisitions
    n_starts            \* loopfilesrcbin: calls of start so far (gives elements an identity)

vars == <<gst_state, settings, signaller_state, signaller_calls, element_bins,
          consumers, in_flight, publisher_pc, subscriber_pc,
          n_video_pads, n_audio_pads, src_pads, transceivers,
          remote_description, local_description, promises, sent_sdp, errors,
          filter_requests, branches, panicked, n_prepares, n_offers, n_pads,
          last_reply, sid_calls, flt_call, ice_events, prop_log,
          locks, thread_pc, round, handlers, sig_events, last_change,
          loop_gst_state, loop_settings, loop_state, loop_locks, loop_pc,
          add_fragment, parent_messages, loop_handled, loop_read, loop_nested,
          n_starts>>

\* groups used in UNCHANGED
lifecycle_vars ==
    <<gst_state, signaller_state, signaller_calls, element_bins, consumers,
      publisher_pc, subscriber_pc, n_prepares>>

pad_vars == <<n_video_pads, n_audio_pads, src_pads, n_pads>>

leg_vars == <<transceivers, remote_description, local_description>>

routing_vars == <<filter_requests, branches>>

pure_vars == <<in_flight, last_reply, sid_calls, flt_call>>

lock_vars == <<locks, thread_pc>>

signal_vars == <<handlers, sig_events>>

loop_vars == <<loop_gst_state, loop_settings, loop_state, loop_locks, loop_pc,
               add_fragment, parent_messages, loop_handled, loop_read,
               loop_nested, n_starts>>

aux_vars == <<ice_events, prop_log, lock_vars, round, signal_vars, last_change,
              loop_vars>>

\* the variables of livekitwebrtcsrc
livekit_vars ==
    <<gst_state, settings, signaller_state, signaller_calls, element_bins,
      consumers, in_flight, publisher_pc, subscriber_pc,
      n_video_pads, n_audio_pads, src_pads, transceivers,
      remote_description, local_description, promises, sent_sdp, errors,
      filter_requests, branches, panicked, n_prepares, n_offers, n_pads,
      last_reply, sid_calls, flt_call, ice_events, prop_log,
      locks, thread_pc, round, handlers, sig_events, last_change>>

\* loopfilesrcbin after construction: Settings::default(), no State, both
\* mutexes free
LoopInit ==
    /\ loop_gst_state = "Null"
    /\ loop_settings = [location |-> ""]
    /\ loop_state = NoneOpt
    /\ loop_locks = [settings |-> "free", state |-> "free"]
    /\ loop_pc = [change_state |-> "idle", streaming |-> "idle"]
    /\ add_fragment = <<>>
    /\ parent_messages = <<>>
    /\ loop_handled = <<>>
    /\ loop_read = NoneOpt
    /\ loop_nested = {}
    /\ n_starts = 0

\* State::signaller_signals is None and no closure is connected
NoHandlers == [signals |-> NoneOpt, connected |-> [s \in Signallers |-> 0]]

\* Dropping a SignallerSignals: the structure holds four handler ids and no
\* reference to the signaller they were connected on, nothing reads them and
\* nothing calls disconnect, so the closures stay connected
drop_signaller_signals(connected, old) == connected

\* connect_signaller: the four closures are connected on the signaller, their
\* ids are stored with Option::insert, which drops the structure stored before
connect_signaller(h, signaller) ==
    LET connected == [h.connected EXCEPT ![signaller] = @ + 1]
    IN  [signals |-> Some(signaller),
         connected |-> IF is_some(h.signals)
                       THEN drop_signaller_signals(connected, unwrap(h.signals))
                       ELSE connected]

AuxInit ==
    /\ ice_events = <<>>
    /\ prop_log = [written |-> [name \in {"audio-codecs", "video-codecs"} |-> <<>>],
                   read |-> <<>>]
    /\ locks = [settings |-> 0, state |-> 0]
    /\ thread_pc = [t \in 1 .. MaxThreads |-> "idle"]
    /\ round = [offer_pc |-> "idle", offer |-> <<>>, peer |-> "unlinked", k |-> 0,
                legs0 |-> 0, answer_pc |-> "idle", answer |-> <<>>,
                local_for |-> <<>>, codec_names |-> <<>>, judged |-> <<>>]
    /\ handlers = connect_signaller(NoHandlers, settings.signaller)
    /\ sig_events = <<>>
    /\ last_change = NoneOpt
    /\ LoopInit

ElementInit ==
    /\ gst_state = "Null"
    /\ \E sig \in {SigNoUri, SigUriUnset}, decoders \in DecoderSets :
          settings = DefaultSettings(sig, decoders)
    /\ signaller_state = "Stopped"
    /\ signaller_calls = <<>>
    /\ element_bins = {}
    /\ consumers = <<>>
    /\ in_flight = NoneOpt
    /\ publisher_pc = NoneOpt
    /\ subscriber_pc = NoneOpt
    /\ n_video_pads = 0
    /\ n_audio_pads = 0
    /\ src_pads = <<>>
    /\ transceivers = <<>>
    /\ remote_description = NoneOpt
    /\ local_description = NoneOpt
    /\ promises = <<>>
    /\ sent_sdp = <<>>
    /\ errors = <<>>
    /\ filter_requests = <<>>
    /\ branches = <<>>
    /\ panicked = FALSE
    /\ n_prepares = 0
    /\ n_offers = 0
    /\ n_pads = 0
    /\ last_reply = NoneOpt
    /\ AuxInit

Init ==
    /\ ElementInit
    /\ sid_calls = <<>>
    /\ flt_call = NoneOpt

\* gst::element_error!
element_error(domain, text) == [domain |-> domain, text |-> text]

\* ---------------------------------------------------------------------------
\* Lifecycle: prepare, unprepare, signaller start and stop, change_state
\* ---------------------------------------------------------------------------
PrepareResults == {"ok", "make_failed", "add_failed"}

\* Variant: only the publisher leg is stored in State
prepare_publisher_only(result) ==
    /\ consumers' = IF result = "make_failed" THEN consumers
                    ELSE Append(consumers, n_prepares + 1)
    /\ IF result = "ok"
       THEN /\ element_bins' = element_bins \cup {n_prepares + 1}
            /\ publisher_pc' = Some(n_prepares + 1)
            /\ subscriber_pc' = subscriber_pc
            /\ transceivers' = <<>>
            /\ remote_description' = NoneOpt
            /\ local_description' = NoneOpt
       ELSE /\ UNCHANGED <<element_bins, leg_vars>>
            /\ publisher_pc' = publisher_pc
            /\ subscriber_pc' = subscriber_pc

\* prepare(): both legs are stored in State only when every step succeeded;
\* the new subscriber webrtcbin has no transceiver and no description.
prepare(result) ==
    /\ consumers' = IF result = "make_failed" THEN consumers
                    ELSE Append(consumers, n_prepares + 1)
    /\ IF result = "ok"
       THEN /\ element_bins' = element_bins \cup {n_prepares + 1}
            /\ publisher_pc' = Some(n_prepares + 1)
            /\ subscriber_pc' = Some(n_prepares + 1)
            /\ transceivers' = <<>>
            /\ remote_description' = NoneOpt
            /\ local_description' = NoneOpt
       ELSE /\ UNCHANGED <<element_bins, leg_vars>>
            /\ publisher_pc' = publisher_pc
            /\ subscriber_pc' = subscriber_pc

\* maybe_stop_signaller
signaller_state_after_stop(st) == IF st = "Started" THEN "Stopped" ELSE st

\* Variant: start() is called without looking at the signaller state
starts_signaller_unchecked(st, current_state) ==
    current_state \in {"Paused", "Playing"}

\* maybe_start_signaller: whether start() is called
starts_signaller(st, current_state) ==
    st = "Stopped" /\ current_state \in {"Paused", "Playing"}

\* maybe_start_signaller, called with the element's current state
signaller_state_after_start(st, current_state) ==
    IF starts_signaller(st, current_state) THEN "Started" ELSE st

\* the record of the calls of start() and stop(), after one more call
called(calls, call) ==
    IF Len(calls) >= 2 THEN Append(Tail(calls), call) ELSE Append(calls, call)

\* unprepare(): stop the signaller, remove every source pad, reset the counters
unprepare ==
    /\ signaller_state' = signaller_state_after_stop(signaller_state)
    /\ signaller_calls' = IF signaller_state = "Started"
                          THEN called(signaller_calls, "stop")
                          ELSE signaller_calls
    /\ src_pads' = <<>>
    /\ n_video_pads' = 0
    /\ n_audio_pads' = 0

\* The value change_state returns: the error of a failed prepare, NoPreroll
\* for ReadyToPaused and PlayingToPaused, else what the parent class returned
change_state_ret(transition, parent_ok, prepared) ==
    IF transition = "NullToReady" /\ ~prepared THEN "Failure"
    ELSE IF transition \in {"ReadyToPaused", "PlayingToPaused"} THEN "NoPreroll"
    ELSE IF parent_ok THEN "Success" ELSE "Failure"

\* the record of a change_state call
changed(transition, parent_ok, prepared) ==
    Some([transition |-> transition, parent_ok |-> parent_ok,
          ret |-> change_state_ret(transition, parent_ok, prepared)])

NullToReady(parent_ok, result) ==
    /\ ~panicked
    /\ gst_state = "Null"
    /\ n_prepares < MaxPrepares
    /\ n_prepares' = n_prepares + 1
    /\ prepare(result)
    /\ IF result # "ok"
       THEN /\ errors' = Append(errors, element_error("stream", "Failed to prepare"))
            /\ gst_state' = gst_state
       ELSE /\ errors' = errors
            /\ gst_state' = IF parent_ok THEN "Ready" ELSE gst_state
    /\ UNCHANGED <<settings, signaller_state, signaller_calls, pad_vars, promises, sent_sdp,
                   routing_vars, panicked, n_offers, pure_vars, ice_events, prop_log, lock_vars,
                   round, signal_vars, loop_vars>>
    /\ last_change' = changed("NullToReady", parent_ok, (result = "ok"))

ReadyToPaused(parent_ok) ==
    /\ ~panicked
    /\ gst_state = "Ready"
    /\ gst_state' = "Paused"
    /\ UNCHANGED <<settings, signaller_state, signaller_calls, element_bins, consumers, publisher_pc, subscriber_pc,
                   n_prepares, pad_vars, leg_vars, promises, sent_sdp, errors,
                   routing_vars, panicked, n_offers, pure_vars, ice_events, prop_log, lock_vars,
                   round, signal_vars, loop_vars>>
    /\ last_change' = changed("ReadyToPaused", parent_ok, TRUE)

PausedToPlaying(parent_ok) ==
    /\ ~panicked
    /\ gst_state = "Paused"
    /\ signaller_state' = signaller_state_after_start(signaller_state, gst_state)
    /\ signaller_calls' = IF starts_signaller(signaller_state, gst_state)
                          THEN called(signaller_calls, "start")
                          ELSE signaller_calls
    /\ gst_state' = IF parent_ok THEN "Playing" ELSE gst_state
    /\ UNCHANGED <<settings, element_bins, consumers, publisher_pc, subscriber_pc, n_prepares, pad_vars,
                   leg_vars, promises, sent_sdp, errors, routing_vars, panicked,
                   n_offers, pure_vars, ice_events, prop_log, lock_vars,
                   round, signal_vars, loop_vars>>
    /\ last_change' = changed("PausedToPlaying", parent_ok, TRUE)

PlayingToPaused(parent_ok) ==
    /\ ~panicked
    /\ gst_state = "Playing"
    /\ gst_state' = "Paused"
    /\ UNCHANGED <<settings, signaller_state, signaller_calls, element_bins, consumers, publisher_pc, subscriber_pc,
                   n_prepares, pad_vars, leg_vars, promises, sent_sdp, errors,
                   routing_vars, panicked, n_offers, pure_vars, ice_events, prop_log, lock_vars,
                   round, signal_vars, loop_vars>>
    /\ last_change' = changed("PlayingToPaused", parent_ok, TRUE)

PausedToReady(parent_ok) ==
    /\ ~panicked
    /\ gst_state = "Paused"
    /\ unprepare
    /\ gst_state' = IF parent_ok THEN "Ready" ELSE gst_state
    /\ UNCHANGED <<settings, element_bins, consumers, publisher_pc, subscriber_pc, n_prepares, n_pads,
                   leg_vars, promises, sent_sdp, errors, routing_vars, panicked,
                   n_offers, pure_vars, ice_events, prop_log, lock_vars,
                   round, signal_vars, loop_vars>>
    /\ last_change' = changed("PausedToReady", parent_ok, TRUE)

ReadyToNull(parent_ok) ==
    /\ ~panicked
    /\ gst_state = "Ready"
    /\ gst_state' = IF parent_ok THEN "Null" ELSE gst_state
    /\ UNCHANGED <<settings, signaller_state, signaller_calls, element_bins, consumers, publisher_pc, subscriber_pc,
                   n_prepares, pad_vars, leg_vars, promises, sent_sdp, errors,
                   routing_vars, panicked, n_offers, pure_vars, ice_events, prop_log, lock_vars,
                   round, signal_vars, loop_vars>>
    /\ last_change' = changed("ReadyToNull", parent_ok, TRUE)

\* ---------------------------------------------------------------------------
\* Source pads (WebRTCSrcPad) and their creation
\* ---------------------------------------------------------------------------
\* What the peer of a new source pad accepts when queried for caps; the pads
\* created for one offer meet the same kind of peer
Peers == {"unlinked", "raw_only", "incompatible"}

peer_accepts(peer, name) ==
    CASE peer = "unlinked" -> TRUE
      [] peer = "raw_only" -> name \in {VIDEO_CAPS, AUDIO_CAPS}
      [] peer = "incompatible" -> FALSE

\* ghost.peer_query_caps(Some(&caps_with_raw)): the names of the structures of
\* the filter that the peer accepts, in the order of the filter
peer_query_caps(peer, caps_with_raw) ==
    SelectSeq(caps_with_raw, LAMBDA name : peer_accepts(peer, name))

new_pad(id, name) ==
    [id |-> id, name |-> name, stream_id |-> "", needs_decoding |-> FALSE,
     target |-> NoneOpt]

set_stream_id(pad, stream_id) == [pad EXCEPT !.stream_id = stream_id]

set_needs_decoding(pad, v) == [pad EXCEPT !.needs_decoding = v]

set_target(pad, target) == [pad EXCEPT !.target = target]

\* fetch_add(1) on an AtomicU16
fetch_add(n) == (n + 1) % U16

pad_names(pads) == {pads[i].name : i \in DOMAIN pads}

\* create_and_probe_src_pad on the element state `st`; sets st.created
create_and_probe_src_pad(st, caps, stream_id, peer) ==
    LET media_type == get_str(caps[1].fields, K_media)
    IN  IF media_type = None THEN [st EXCEPT !.panicked = TRUE]
        ELSE IF media_type \notin {"video", "audio"}
        THEN [st EXCEPT !.created = FALSE]
        ELSE
        LET name == IF media_type = "video"
                    THEN "video_" \o ToString(st.n_video_pads)
                    ELSE "audio_" \o ToString(st.n_audio_pads)
            raw_caps == IF media_type = "video" THEN VIDEO_CAPS ELSE AUDIO_CAPS
            counted == IF media_type = "video"
                       THEN [st EXCEPT !.n_video_pads = fetch_add(@)]
                       ELSE [st EXCEPT !.n_audio_pads = fetch_add(@)]
            caps_with_raw == [i \in DOMAIN caps |-> caps[i].name] \o <<raw_caps>>
            ghost == set_stream_id(new_pad(st.n_pads + 1, name), stream_id)
            downstream_caps == peer_query_caps(peer, caps_with_raw)
            probed == IF downstream_caps # <<>> /\ downstream_caps[1] = raw_caps
                      THEN set_needs_decoding(ghost, TRUE)
                      ELSE ghost
        IN  IF name \in pad_names(st.src_pads)
            THEN [counted EXCEPT !.panicked = TRUE]
            ELSE [counted EXCEPT !.src_pads = Append(@, probed),
                                 !.n_pads = @ + 1,
                                 !.created = TRUE]

\* Variant: the transceiver is left without retransmission requests
add_transceiver_no_nack(direction, caps) ==
    [direction |-> direction, caps |-> caps, do_nack |-> FALSE, fec_type |-> "ulp-red"]

\* add-transceiver with do_nack and fec-type set on the result
add_transceiver(direction, caps) ==
    [direction |-> direction, caps |-> caps, do_nack |-> TRUE, fec_type |-> "ulp-red"]

\* The body of the loop of handle_offer for the media line with index i
handle_media(st, media, i, signaller, codec_names, peer) ==
    LET caps == media_caps(media, codec_names)
    IN  IF caps = <<>> THEN st
        ELSE LET stream_id == get_stream_id(signaller, NoneOpt, Some(i))
             IN  IF stream_id \in {None, Panic} THEN [st EXCEPT !.panicked = TRUE]
                 ELSE LET r == create_and_probe_src_pad(st, caps, stream_id, peer)
                      IN  IF ~r.panicked /\ r.created
                          THEN [r EXCEPT !.transceivers =
                                   Append(@, add_transceiver("recvonly", caps))]
                          ELSE r

\* The loop of handle_offer over sdp.medias().enumerate(), from line k on
RECURSIVE handle_medias(_, _, _, _, _, _)
handle_medias(st, medias, k, signaller, codec_names, peer) ==
    IF k > Len(medias) \/ st.panicked THEN st
    ELSE handle_medias(
            handle_media(st, medias[k], k - 1, signaller, codec_names, peer),
            medias, k + 1, signaller, codec_names, peer)

\* Variant: the offer is reduced to the media lines that survive filtering
set_remote_description_filtered(offer) ==
    Some([offer EXCEPT !.medias =
            SelectSeq(@, LAMBDA m : media_caps(m, all_codec_names(settings)) # <<>>)])

\* emit "set-remote-description" with the offer
set_remote_description(offer) == Some(offer)

\* emit "create-answer" with a promise that calls on_answer_created; the
\* webrtcbin answers the remote description it holds at that moment
create_answer(pending, leg, offer) == Append(pending, [leg |-> leg, offer |-> offer])

\* handle_offer: pads and transceivers for the lines that survive filtering,
\* then set-remote-description and create-answer on the subscriber webrtcbin
handle_offer(offer, peer) ==
    IF ~is_some(subscriber_pc)
    THEN /\ panicked' = TRUE
         /\ UNCHANGED <<pad_vars, leg_vars, promises>>
    ELSE LET st0 == [src_pads |-> src_pads, n_video_pads |-> n_video_pads,
                     n_audio_pads |-> n_audio_pads, n_pads |-> n_pads,
                     transceivers |-> transceivers, panicked |-> FALSE,
                     created |-> FALSE]
             st == handle_medias(st0, offer.medias, 1, settings.signaller,
                                 all_codec_names(settings), peer)
         IN  /\ src_pads' = st.src_pads
             /\ n_video_pads' = st.n_video_pads
             /\ n_audio_pads' = st.n_audio_pads
             /\ n_pads' = st.n_pads
             /\ transceivers' = st.transceivers
             /\ panicked' = st.panicked
             /\ IF st.panicked
                THEN UNCHANGED <<remote_description, local_description, promises>>
                ELSE /\ remote_description' = set_remote_description(offer)
                     /\ local_description' = local_description
                     /\ promises' = create_answer(promises, unwrap(subscriber_pc), offer)

\* The answer that the subscriber webrtcbin generates for a remote offer
Answer(offer) == [type |-> "answer", in_reply_to |-> offer]

\* Offers in which no media line survives the codec filter
EmptyOffers == {Offer(<<L_h266, L_data>>)}

\* What the signaller may deliver in a session-description event
Descriptions == Offers \cup {Answer(Offer(<<L_opus>>))}

\* The session-description closure: the description must be an offer
description_received(desc, peer) ==
    /\ n_offers' = n_offers + 1
    /\ IF desc.type # "offer"
       THEN /\ panicked' = TRUE
            /\ UNCHANGED <<pad_vars, leg_vars, promises>>
       ELSE handle_offer(desc, peer)
    /\ UNCHANGED <<settings, lifecycle_vars, sent_sdp, errors, routing_vars,
                   last_reply, sid_calls, flt_call, aux_vars>>

\* A session-description event that the closure handles as soon as the started
\* signaller emits it
session_description(desc, peer) ==
    /\ ~panicked
    /\ signaller_state = "Started"
    /\ n_offers < MaxOffers
    /\ description_received(desc, peer)
    /\ UNCHANGED in_flight

\* The started signaller emits session-description on its own thread; the
\* closure has not run yet
session_description_emitted(desc, peer) ==
    /\ ~panicked
    /\ signaller_state = "Started"
    /\ in_flight = NoneOpt
    /\ n_offers < MaxOffers
    /\ in_flight' = Some([desc |-> desc, peer |-> peer])
    /\ UNCHANGED <<settings, lifecycle_vars, pad_vars, leg_vars, promises,
                   sent_sdp, errors, routing_vars, panicked, n_offers,
                   last_reply, sid_calls, flt_call, aux_vars>>

\* The closure runs for the event that was emitted
session_description_handled ==
    /\ ~panicked
    /\ in_flight # NoneOpt
    /\ description_received(unwrap(in_flight).desc, unwrap(in_flight).peer)
    /\ in_flight' = NoneOpt

\* ---------------------------------------------------------------------------
\* The error event of the signaller
\* ---------------------------------------------------------------------------
SignallerErrors == {"timeout", "closed"}

is_signalling_error(e) == e.domain = "stream" /\ e.text \in SignallerErrors

\* Variant: the closure also stops the signaller
signaller_error_stops(error) ==
    /\ ~panicked
    /\ Cardinality({i \in DOMAIN errors : is_signalling_error(errors[i])})
          < MaxSignallerErrors
    /\ errors' = Append(errors, element_error("stream", error))
    /\ signaller_state' = "Stopped"
    /\ UNCHANGED <<settings, gst_state, signaller_calls, element_bins, consumers,
                   publisher_pc, subscriber_pc, n_prepares, pad_vars, leg_vars,
                   promises, sent_sdp, routing_vars, panicked, n_offers,
                   pure_vars, aux_vars>>

\* The error closure: one element error with the message of the signaller
signaller_error(error) ==
    /\ ~panicked
    /\ Cardinality({i \in DOMAIN errors : is_signalling_error(errors[i])})
          < MaxSignallerErrors
    /\ errors' = Append(errors, element_error("stream", error))
    /\ UNCHANGED <<settings, lifecycle_vars, pad_vars, leg_vars, promises,
                   sent_sdp, routing_vars, panicked, n_offers, pure_vars, aux_vars>>

\* ---------------------------------------------------------------------------
\* Answer creation
\* ---------------------------------------------------------------------------
\* What the create-answer promise can be fulfilled with
Replies ==
    {"answer", "no_answer", "answer_not_sdp", "answer_and_error", "empty",
     "promise_error"}

\* Variant: a reply with an answer is used even when it also has an error
reply_error_answer_first(reply) ==
    CASE reply \in {"answer", "answer_and_error"} -> NoneOpt
      [] reply \in {"no_answer", "answer_not_sdp", "empty"} ->
            Some(element_error("stream", "no reply"))
      [] reply = "promise_error" -> Some(element_error("library", "error"))

\* The element error that on_answer_created posts for a reply, if any
reply_error(reply) ==
    CASE reply = "answer" -> NoneOpt
      [] reply = "no_answer" -> Some(element_error("stream", "no reply"))
      [] reply = "answer_not_sdp" -> Some(element_error("stream", "no reply"))
      [] reply = "answer_and_error" -> Some(element_error("library", "error"))
      [] reply = "empty" -> Some(element_error("stream", "no reply"))
      [] reply = "promise_error" -> Some(element_error("library", "error"))

\* The body of on_answer_created, for the oldest pending promise; `applied`
\* tells whether the subscriber webrtcbin accepts the local description (it
\* has no promise to report a failure to)
answer_created(reply, applied) ==
    /\ ~panicked
    /\ promises # <<>>
    /\ promises' = Tail(promises)
    /\ LET err == reply_error(reply)
           answer == Answer(Head(promises).offer)
       IN  IF is_some(err)
           THEN /\ errors' = Append(errors, unwrap(err))
                /\ UNCHANGED <<local_description, sent_sdp, panicked>>
           ELSE IF ~is_some(subscriber_pc)
           THEN /\ panicked' = TRUE
                /\ UNCHANGED <<local_description, sent_sdp, errors>>
           ELSE /\ local_description' = IF applied THEN Some(answer)
                                                     ELSE local_description
                /\ sent_sdp' = Append(sent_sdp,
                                      [session_id |-> session_id, sdp |-> answer])
                /\ UNCHANGED <<errors, panicked>>
    /\ UNCHANGED <<settings, lifecycle_vars, pad_vars, transceivers,
                   remote_description, routing_vars, n_offers, in_flight,
                   sid_calls, flt_call, aux_vars>>

\* on_answer_created with a webrtcbin that accepts the answer
on_answer_created(reply) ==
    answer_created(reply, TRUE) /\ UNCHANGED last_reply

\* on_answer_created, keeping the reply it was called with
on_answer_created_traced(reply, applied) ==
    answer_created(reply, applied) /\ last_reply' = Some(reply)

\* ---------------------------------------------------------------------------
\* Routing of the pads added by the subscriber webrtcbin
\* ---------------------------------------------------------------------------
\* Variant: a stream id that no pad carries falls back to the first pad
find_src_pad_or_first(pads, stream_id) ==
    LET hits == {i \in DOMAIN pads : pads[i].stream_id = stream_id}
    IN  IF pads = <<>> THEN NoneOpt
        ELSE IF hits = {} THEN Some(1)
        ELSE Some(CHOOSE i \in hits : \A j \in hits : i <= j)

\* find_map over iterate_src_pads: index of the first pad with that stream id
find_src_pad(pads, stream_id) ==
    LET hits == {i \in DOMAIN pads : pads[i].stream_id = stream_id}
    IN  IF hits = {} THEN NoneOpt
        ELSE Some(CHOOSE i \in hits : \A j \in hits : i <= j)

\* get_src_pad_from_webrtcbin_pad: the index of the source pad, if any;
\* panicked when get_stream_id panics
get_src_pad_from_webrtcbin_pad(pads, signaller, transceiver) ==
    LET stream_id == get_stream_id(signaller, Some(transceiver), NoneOpt)
    IN  IF stream_id = Panic THEN [panicked |-> TRUE, pad |-> NoneOpt]
        ELSE IF stream_id = None THEN [panicked |-> FALSE, pad |-> NoneOpt]
        ELSE [panicked |-> FALSE, pad |-> find_src_pad(pads, stream_id)]

Target(kind, branch) == [kind |-> kind, branch |-> branch]

\* Variant: a parsebin goes in front of every encoded filter
build_branch_parse_before_filter(id, mlineindex, srcpad, encoded_filter) ==
    [ghostpad |-> id,
     webrtcbin_pad |-> mlineindex,
     srcpad |-> srcpad.id,
     decodebin |-> srcpad.needs_decoding,
     parsebin |-> encoded_filter,
     filter |-> encoded_filter,
     linked_to |-> IF encoded_filter THEN "parsebin"
                   ELSE IF srcpad.needs_decoding THEN "decodebin" ELSE "srcpad"]

\* The nodes that handle_webrtc_src_pad adds to the element for a source pad
build_branch(id, mlineindex, srcpad, encoded_filter) ==
    [ghostpad |-> id,
     webrtcbin_pad |-> mlineindex,
     srcpad |-> srcpad.id,
     decodebin |-> srcpad.needs_decoding,
     parsebin |-> srcpad.needs_decoding /\ encoded_filter,
     filter |-> encoded_filter,
     linked_to |-> IF srcpad.needs_decoding
                   THEN IF encoded_filter THEN "parsebin" ELSE "decodebin"
                   ELSE IF encoded_filter THEN "filter" ELSE "srcpad"]

\* Variant: the pad is probed again when its webrtcbin pad arrives, found
\* not to need decoding and wired without a decoder
routed_pad_reprobe(id, srcpad, encoded_filter) ==
    set_target(set_needs_decoding(srcpad, FALSE),
               Some(Target(IF encoded_filter THEN "filter_src" ELSE "ghostpad", id)))

\* The target that handle_webrtc_src_pad gives the source pad at once
routed_pad(id, srcpad, encoded_filter) ==
    IF srcpad.needs_decoding THEN srcpad
    ELSE IF encoded_filter THEN set_target(srcpad, Some(Target("filter_src", id)))
    ELSE set_target(srcpad, Some(Target("ghostpad", id)))

\* A webrtcbin pad that maps to no source pad only gets its ghost pad
unused_branch(id, mlineindex) ==
    [ghostpad |-> id, webrtcbin_pad |-> mlineindex, srcpad |-> 0, decodebin |-> FALSE, parsebin |-> FALSE,
     filter |-> FALSE, linked_to |-> "nothing"]

\* pad-added of the subscriber webrtcbin, for a source pad whose transceiver
\* has the given mline index; encoded_filter tells whether a handler of
\* request-encoded-filter returns an element
handle_webrtc_src_pad(mlineindex, encoded_filter) ==
    /\ ~panicked
    /\ is_some(subscriber_pc)
    /\ gst_state \in {"Paused", "Playing"}
    /\ is_some(remote_description)
    /\ is_some(local_description)
    /\ mlineindex < Len(unwrap(remote_description).medias)
    /\ Len(branches) < MaxTracks
    /\ LET id == Len(branches) + 1
           found == get_src_pad_from_webrtcbin_pad(
                        src_pads, settings.signaller, [mlineindex |-> mlineindex])
       IN  IF found.panicked
           THEN /\ panicked' = TRUE
                /\ UNCHANGED <<src_pads, routing_vars>>
           ELSE IF ~is_some(found.pad)
           THEN /\ branches' = Append(branches, unused_branch(id, mlineindex))
                /\ UNCHANGED <<src_pads, filter_requests, panicked>>
           ELSE LET i == unwrap(found.pad)
                    srcpad == src_pads[i]
                IN  /\ filter_requests' =
                           Append(filter_requests,
                                  [pad_name |-> srcpad.name, pad |-> srcpad.id])
                    /\ branches' = Append(branches,
                                          build_branch(id, mlineindex, srcpad,
                                                       encoded_filter))
                    /\ src_pads' = [src_pads EXCEPT
                                       ![i] = routed_pad(id, srcpad, encoded_filter)]
                    /\ panicked' = panicked
    /\ UNCHANGED <<settings, lifecycle_vars, n_video_pads, n_audio_pads, n_pads,
                   leg_vars, promises, sent_sdp, errors, n_offers, pure_vars, aux_vars>>

\* Variant: the closure sets the target on every source pad that waits for a
\* decoder
pad_added_target_any(pads, srcpad, b) ==
    [i \in DOMAIN pads |->
        IF pads[i].needs_decoding
        THEN set_target(pads[i], Some(Target("decodebin_src", b)))
        ELSE pads[i]]

\* The pad-added closure of a decodebin3: srcpad.set_target(Some(pad)) on the
\* source pad the closure was built for (a weak reference: nothing happens
\* when that pad is gone)
pad_added_target(pads, srcpad, b) ==
    [i \in DOMAIN pads |->
        IF pads[i].id = srcpad
        THEN set_target(pads[i], Some(Target("decodebin_src", b)))
        ELSE pads[i]]

\* pad-added of a decodebin3 built for a branch: its source pad becomes the
\* target of the source pad of the branch, if that pad still exists
decodebin_pad_added(b) ==
    /\ ~panicked
    /\ gst_state \in {"Paused", "Playing"}
    /\ b \in DOMAIN branches
    /\ branches[b].decodebin
    /\ src_pads' = pad_added_target(src_pads, branches[b].srcpad, b)
    /\ UNCHANGED <<settings, lifecycle_vars, n_video_pads, n_audio_pads, n_pads,
                   leg_vars, promises, sent_sdp, errors, routing_vars, panicked,
                   n_offers, pure_vars, aux_vars>>

\* ---------------------------------------------------------------------------
\* The element
\* ---------------------------------------------------------------------------
Next ==
    \/ \E parent_ok \in BOOLEAN, result \in PrepareResults :
          NullToReady(parent_ok, result)
    \/ \E parent_ok \in BOOLEAN : ReadyToPaused(parent_ok)
    \/ \E parent_ok \in BOOLEAN : PausedToPlaying(parent_ok)
    \/ \E parent_ok \in BOOLEAN : PlayingToPaused(parent_ok)
    \/ \E parent_ok \in BOOLEAN : PausedToReady(parent_ok)
    \/ \E parent_ok \in BOOLEAN : ReadyToNull(parent_ok)
    \/ \E desc \in Descriptions :
          \E peer \in Peers : session_description(desc, peer)
    \/ \E reply \in Replies : on_answer_created(reply)
    \/ \E mlineindex \in 0 .. 1, encoded_filter \in BOOLEAN :
          handle_webrtc_src_pad(mlineindex, encoded_filter)
    \/ \E b \in 1 .. MaxTracks : decodebin_pad_added(b)

Spec == Init /\ [][Next]_vars

\* ---------------------------------------------------------------------------
\* get_stream_id on its own: the signaller is replaced with set_signaller and
\* the function is called with a transceiver, an mline index, both or neither
\* ---------------------------------------------------------------------------
set_signaller(signaller) ==
    /\ ~panicked
    /\ settings' = [settings EXCEPT !.signaller = signaller]
    /\ UNCHANGED <<lifecycle_vars, pad_vars, leg_vars, promises, sent_sdp, errors,
                   routing_vars, panicked, n_offers, pure_vars, aux_vars>>

MlineOpts == {NoneOpt} \cup {Some(m) : m \in 0 .. MaxMline}

TransceiverOpts == {NoneOpt} \cup {Some([mlineindex |-> m]) : m \in 0 .. MaxMline}

last_two(calls) == IF Len(calls) > 2 THEN Tail(calls) ELSE calls

stream_id_call(transceiver, mline) ==
    /\ ~panicked
    /\ LET result == get_stream_id(settings.signaller, transceiver, mline)
       IN  /\ sid_calls' = last_two(Append(sid_calls,
                              [signaller |-> settings.signaller,
                               transceiver |-> transceiver,
                               mline |-> mline,
                               result |-> result]))
           /\ panicked' = (result = Panic)
    /\ UNCHANGED <<settings, lifecycle_vars, pad_vars, leg_vars, promises,
                   sent_sdp, errors, routing_vars, n_offers, in_flight, last_reply,
                   flt_call, aux_vars>>

StreamIdInit ==
    /\ ElementInit
    /\ sid_calls = <<>>
    /\ flt_call = NoneOpt

StreamIdNext ==
    \/ \E signaller \in Signallers : set_signaller(signaller)
    \/ \E transceiver \in TransceiverOpts, mline \in MlineOpts :
          stream_id_call(transceiver, mline)

SpecStreamId == StreamIdInit /\ [][StreamIdNext]_vars

\* ---------------------------------------------------------------------------
\* Negotiation on its own: state changes, offers and the answer promise, with
\* a subscriber webrtcbin that may refuse the local description
\* ---------------------------------------------------------------------------
\* The peer of a new source pad only decides the needs-decoding flag of the
\* pad, which neither negotiation nor the life cycle reads
NegotiationPeers == {"raw_only"}

AnswerNext ==
    \/ \E parent_ok \in BOOLEAN, result \in PrepareResults :
          NullToReady(parent_ok, result)
    \/ \E parent_ok \in BOOLEAN : ReadyToPaused(parent_ok)
    \/ \E parent_ok \in BOOLEAN : PausedToPlaying(parent_ok)
    \/ \E parent_ok \in BOOLEAN : PlayingToPaused(parent_ok)
    \/ \E parent_ok \in BOOLEAN : PausedToReady(parent_ok)
    \/ \E parent_ok \in BOOLEAN : ReadyToNull(parent_ok)
    \/ \E desc \in Descriptions :
          \E peer \in NegotiationPeers : session_description(desc, peer)
    \/ \E reply \in Replies, applied \in BOOLEAN :
          on_answer_created_traced(reply, applied)

SpecAnswer == Init /\ [][AnswerNext]_vars

\* ---------------------------------------------------------------------------
\* Routing on its own: the element is brought to Playing and stays there while
\* offers are answered and the subscriber webrtcbin adds its pads
\* ---------------------------------------------------------------------------
\* One peer that leaves the new pads without decoding and one that asks for it;
\* a peer that accepts nothing leaves the pads as an unlinked one does
RoutingPeers == {"unlinked", "raw_only"}

RoutingNext ==
    \/ NullToReady(TRUE, "ok")
    \/ ReadyToPaused(TRUE)
    \/ PausedToPlaying(TRUE)
    \/ \E desc \in Offers, peer \in RoutingPeers : session_description(desc, peer)
    \/ \E reply \in {"answer", "empty"} : on_answer_created(reply)
    \/ \E mlineindex \in 0 .. 1, encoded_filter \in BOOLEAN :
          handle_webrtc_src_pad(mlineindex, encoded_filter)
    \/ \E b \in 1 .. MaxTracks : decodebin_pad_added(b)

SpecRouting == Init /\ [][RoutingNext]_vars

\* ---------------------------------------------------------------------------
\* The life cycle on its own: state changes, the error event of the signaller
\* and session-description events that the closure handles on the signaller's
\* thread, at any time after they were emitted
\* ---------------------------------------------------------------------------
LifecycleNext ==
    \/ \E parent_ok \in BOOLEAN, result \in PrepareResults :
          NullToReady(parent_ok, result)
    \/ \E parent_ok \in BOOLEAN : ReadyToPaused(parent_ok)
    \/ \E parent_ok \in BOOLEAN : PausedToPlaying(parent_ok)
    \/ \E parent_ok \in BOOLEAN : PlayingToPaused(parent_ok)
    \/ \E parent_ok \in BOOLEAN : PausedToReady(parent_ok)
    \/ \E parent_ok \in BOOLEAN : ReadyToNull(parent_ok)
    \/ \E error \in SignallerErrors : signaller_error(error)
    \/ \E desc \in Offers \cup EmptyOffers, peer \in NegotiationPeers :
          session_description_emitted(desc, peer)
    \/ session_description_handled

SpecLifecycle == Init /\ [][LifecycleNext]_vars

\* ---------------------------------------------------------------------------
\* Remote ICE candidates: the handle-ice closure of connect_signaller is
\* connected from construction on, and calls handle_ice
\* ---------------------------------------------------------------------------
MaxIce == 2

\* publisher_pc(): the bin stored in State is expect()ed to be there
publisher_pc_panics(pc) == ~is_some(pc)

\* what the element did with one candidate: where it came from, what came
\* in, and what was handed to whom
ice_event(source, peer_id, mline, candidate, outcome, target, out_mline, out_session) ==
    [source |-> source, peer_id |-> peer_id, mline |-> mline,
     candidate |-> candidate, outcome |-> outcome, target |-> target,
     out_mline |-> out_mline, out_candidate |-> candidate,
     out_session |-> out_session]

\* handle_ice: without an mline index the candidate is dropped with an error
\* log; otherwise it is added to the publisher leg, whoever the peer is
handle_ice(peer_id, sdp_m_line_index, sdp_mid, candidate) ==
    /\ ~panicked
    /\ Len(ice_events) < MaxIce
    /\ IF ~is_some(sdp_m_line_index)
       THEN /\ ice_events' = Append(ice_events,
                                ice_event("signaller", peer_id, sdp_m_line_index,
                                          candidate, "error_log", "none",
                                          NoneOpt, ""))
            /\ panicked' = panicked
       ELSE IF publisher_pc_panics(publisher_pc)
                THEN /\ ice_events' = Append(ice_events,
                                ice_event("signaller", peer_id, sdp_m_line_index,
                                          candidate, "panic", "none", NoneOpt, ""))
                     /\ panicked' = TRUE
                ELSE /\ ice_events' = Append(ice_events,
                                ice_event("signaller", peer_id, sdp_m_line_index,
                                          candidate, "add-ice-candidate",
                                          "publisher", sdp_m_line_index, ""))
                     /\ panicked' = panicked
    /\ UNCHANGED <<settings, lifecycle_vars, pad_vars, leg_vars, promises,
                   sent_sdp, errors, routing_vars, n_offers, pure_vars, signal_vars, loop_vars, last_change, prop_log,
                   lock_vars, round>>

\* the handle-ice closure: the mline index of the signal is always there, and
\* the mid of the signal is not passed on
handle_ice_closure(peer_id, sdp_m_line_index, sdp_mid, candidate) ==
    handle_ice(peer_id, Some(sdp_m_line_index), NoneOpt, candidate)

IceNext ==
    \/ \E parent_ok \in BOOLEAN, result \in PrepareResults :
          NullToReady(parent_ok, result)
    \/ \E parent_ok \in BOOLEAN : ReadyToPaused(parent_ok)
    \/ \E parent_ok \in BOOLEAN : PausedToPlaying(parent_ok)
    \/ \E parent_ok \in BOOLEAN : PlayingToPaused(parent_ok)
    \/ \E parent_ok \in BOOLEAN : PausedToReady(parent_ok)
    \/ \E parent_ok \in BOOLEAN : ReadyToNull(parent_ok)
    \/ \E sdp_m_line_index \in 0 .. MaxMline : handle_ice_closure(session_id, sdp_m_line_index, NoneOpt, "candidate:0")

SpecIce == Init /\ [][IceNext]_vars

\* ---------------------------------------------------------------------------
\* The audio-codecs and video-codecs properties: set_property, property
\* ---------------------------------------------------------------------------
MaxNames == 2

CodecNames == {"OPUS", "VP8", "AV2"}

\* Codecs::find: the codec of the registry with that name, if any. A Codec is
\* identified by its name.
Codecs_find(codec_name) ==
    IF \E i \in DOMAIN (AudioCodecs \o VideoCodecs) :
            (AudioCodecs \o VideoCodecs)[i] = codec_name
    THEN Some(codec_name)
    ELSE NoneOpt

\* filter_map of Codecs::find over the names
RECURSIVE filter_map_find(_)
filter_map_find(names) ==
    IF names = <<>> THEN <<>>
    ELSE Codecs_find(Head(names)) \o filter_map_find(Tail(names))

\* Variant: the codecs of the registry whose names are in the list, in the
\* order of the registry
collect_codecs_registry_order(names) ==
    SelectSeq(AudioCodecs \o VideoCodecs,
              LAMBDA c : \E i \in DOMAIN names : names[i] = c)

\* set_property, "audio-codecs" and "video-codecs": the codecs found for the
\* names of the array, collected in the order of the array
collect_codecs(names) == filter_map_find(names)

PropSlot(name) == IF name = "audio-codecs" THEN "audio_codecs" ELSE "video_codecs"

set_property(name, value) ==
    /\ ~panicked
    /\ settings' = [settings EXCEPT ![PropSlot(name)] = collect_codecs(value)]
    /\ prop_log' = [written |-> [prop_log.written EXCEPT ![name] = Some(value)],
                    read |-> NoneOpt]
    /\ UNCHANGED <<lifecycle_vars, pad_vars, leg_vars, promises, sent_sdp, errors,
                   routing_vars, panicked, n_offers, pure_vars, signal_vars, loop_vars, last_change, ice_events, lock_vars, round>>

\* property, "audio-codecs" and "video-codecs": the names of the stored codecs
property(name) ==
    /\ ~panicked
    /\ prop_log' = [prop_log EXCEPT !.read =
                        Some([name |-> name,
                              value |-> [i \in DOMAIN settings[PropSlot(name)] |->
                                            settings[PropSlot(name)][i]]])]
    /\ UNCHANGED <<settings, lifecycle_vars, pad_vars, leg_vars, promises, sent_sdp,
                   errors, routing_vars, panicked, n_offers, pure_vars, signal_vars, loop_vars, last_change, ice_events, lock_vars, round>>

RECURSIVE NameLists(_)
NameLists(n) ==
    IF n = 0 THEN {<<>>}
    ELSE NameLists(n - 1)
            \cup {Append(l, c) : l \in NameLists(n - 1), c \in CodecNames}

PropsNext ==
    \/ \E name \in {"audio-codecs", "video-codecs"}, value \in NameLists(MaxNames) :
          set_property(name, value)
    \/ \E name \in {"audio-codecs", "video-codecs"} : property(name)

SpecProps == Init /\ [][PropsNext]_vars

\* ---------------------------------------------------------------------------
\* The two mutexes, settings and state: set_signaller, maybe_start_signaller
\* and maybe_stop_signaller run step by step on several threads; the handlers
\* that take one mutex for one statement run when that mutex is free
\* ---------------------------------------------------------------------------
Threads == 1 .. MaxThreads

guarded_vars ==
    <<settings, lifecycle_vars, pad_vars, leg_vars, promises, sent_sdp, errors,
      routing_vars, panicked, n_offers, pure_vars, signal_vars, loop_vars, last_change,
      ice_events, prop_log, round>>

at(t, pc) == [thread_pc EXCEPT ![t] = pc]

\* a state change is running on some thread
in_change_state ==
    \E t \in Threads : thread_pc[t] \in {"start_signaller", "stop_signaller"}

\* set_signaller: self.settings.lock()
set_signaller_lock(t) ==
    /\ ~panicked
    /\ thread_pc[t] = "idle"
    /\ locks.settings = 0
    /\ locks' = [locks EXCEPT !.settings = t]
    /\ thread_pc' = at(t, "connect_signaller")
    /\ UNCHANGED guarded_vars

\* connect_signaller, called by set_signaller with the settings guard alive:
\* self.state.lock()
connect_signaller_lock(t) ==
    /\ thread_pc[t] = "connect_signaller"
    /\ locks.state = 0
    /\ locks' = [locks EXCEPT !.state = t]
    /\ thread_pc' = at(t, "insert_signals")
    /\ UNCHANGED guarded_vars

\* connect_signaller: signaller_signals.insert(..), the state guard is dropped
connect_signaller_unlock(t) ==
    /\ thread_pc[t] = "insert_signals"
    /\ locks' = [locks EXCEPT !.state = 0]
    /\ thread_pc' = at(t, "store_signaller")
    /\ UNCHANGED guarded_vars

\* set_signaller: settings.signaller = signaller, the settings guard is dropped
set_signaller_store(t, signaller) ==
    /\ thread_pc[t] = "store_signaller"
    /\ settings' = [settings EXCEPT !.signaller = signaller]
    /\ locks' = [locks EXCEPT !.settings = 0]
    /\ thread_pc' = at(t, "idle")
    /\ UNCHANGED <<lifecycle_vars, pad_vars, leg_vars, promises, sent_sdp, errors,
                   routing_vars, panicked, n_offers, pure_vars, signal_vars, loop_vars, last_change, ice_events, prop_log, round>>

\* change_state(PausedToPlaying) up to maybe_start_signaller: self.state.lock()
\* and the test of the signaller state; when the signaller is not to be
\* started the guard is dropped at once and the transition ends
maybe_start_signaller_lock(t) ==
    /\ ~panicked
    /\ thread_pc[t] = "idle"
    /\ ~in_change_state
    /\ gst_state = "Paused"
    /\ locks.state = 0
    /\ IF starts_signaller(signaller_state, gst_state)
       THEN /\ locks' = [locks EXCEPT !.state = t]
            /\ thread_pc' = at(t, "start_signaller")
            /\ gst_state' = gst_state
       ELSE /\ UNCHANGED lock_vars
            /\ gst_state' = "Playing"
    /\ UNCHANGED <<settings, signaller_state, signaller_calls, element_bins, consumers,
                   publisher_pc, subscriber_pc, n_prepares, pad_vars, leg_vars,
                   promises, sent_sdp, errors, routing_vars, panicked, n_offers,
                   pure_vars, signal_vars, loop_vars, last_change, ice_events, prop_log, round>>

\* maybe_start_signaller with the state guard alive: self.signaller() locks
\* the settings for one statement, then start(), then the state is written
\* and the guard dropped; the transition ends
maybe_start_signaller_start(t) ==
    /\ thread_pc[t] = "start_signaller"
    /\ locks.settings = 0
    /\ signaller_state' = signaller_state_after_start(signaller_state, gst_state)
    /\ signaller_calls' = called(signaller_calls, "start")
    /\ locks' = [locks EXCEPT !.state = 0]
    /\ thread_pc' = at(t, "idle")
    /\ gst_state' = "Playing"
    /\ UNCHANGED <<settings, element_bins, consumers, publisher_pc, subscriber_pc,
                   n_prepares, pad_vars, leg_vars, promises, sent_sdp, errors,
                   routing_vars, panicked, n_offers, pure_vars, signal_vars, loop_vars, last_change, ice_events, prop_log, round>>

\* change_state(PausedToReady) up to maybe_stop_signaller: self.state.lock()
\* and the test of the signaller state; when the signaller is not started
\* the guard is dropped at once and unprepare goes on
maybe_stop_signaller_lock(t) ==
    /\ ~panicked
    /\ thread_pc[t] = "idle"
    /\ ~in_change_state
    /\ gst_state = "Paused"
    /\ locks.state = 0
    /\ IF signaller_state = "Started"
       THEN /\ locks' = [locks EXCEPT !.state = t]
            /\ thread_pc' = at(t, "stop_signaller")
            /\ UNCHANGED <<gst_state, signaller_state, signaller_calls, src_pads,
                           n_video_pads, n_audio_pads>>
       ELSE /\ UNCHANGED lock_vars
            /\ unprepare
            /\ gst_state' = "Ready"
    /\ UNCHANGED <<settings, element_bins, consumers, publisher_pc, subscriber_pc,
                   n_prepares, n_pads, leg_vars, promises, sent_sdp, errors,
                   routing_vars, panicked, n_offers, pure_vars, signal_vars, loop_vars, last_change, ice_events, prop_log, round>>

\* maybe_stop_signaller with the state guard alive: self.signaller() locks the
\* settings for one statement, then stop(), then the state is written and the
\* guard dropped; unprepare goes on and the transition ends
maybe_stop_signaller_stop(t) ==
    /\ thread_pc[t] = "stop_signaller"
    /\ locks.settings = 0
    /\ unprepare
    /\ locks' = [locks EXCEPT !.state = 0]
    /\ thread_pc' = at(t, "idle")
    /\ gst_state' = "Ready"
    /\ UNCHANGED <<settings, element_bins, consumers, publisher_pc, subscriber_pc,
                   n_prepares, n_pads, leg_vars, promises, sent_sdp, errors,
                   routing_vars, panicked, n_offers, pure_vars, signal_vars, loop_vars, last_change, ice_events, prop_log, round>>

LocksNext ==
    \/ \E t \in Threads : set_signaller_lock(t)
    \/ \E t \in Threads : connect_signaller_lock(t)
    \/ \E t \in Threads : connect_signaller_unlock(t)
    \/ \E t \in Threads, signaller \in Signallers : set_signaller_store(t, signaller)
    \/ \E t \in Threads : maybe_start_signaller_lock(t)
    \/ \E t \in Threads : maybe_start_signaller_start(t)
    \/ \E t \in Threads : maybe_stop_signaller_lock(t)
    \/ \E t \in Threads : maybe_stop_signaller_stop(t)
    \/ ~in_change_state /\ locks = [settings |-> 0, state |-> 0]
          /\ NullToReady(TRUE, "ok")
    \/ ~in_change_state /\ ReadyToPaused(TRUE)
    \/ ~in_change_state /\ PlayingToPaused(TRUE)
    \/ \E name \in {"audio-codecs", "video-codecs"} :
          locks.settings = 0 /\ property(name)
    \/ \E sdp_m_line_index \in 0 .. MaxMline :
          locks.state = 0 /\ handle_ice_closure(session_id, sdp_m_line_index, NoneOpt, "candidate:0")

SpecLocks == Init /\ [][LocksNext]_vars

\* ---------------------------------------------------------------------------
\* One negotiation round step by step: handle_offer and on_answer_created
\* emit their signals one after the other, in the order of their statements
\* ---------------------------------------------------------------------------
\* the statements of handle_offer, in program order
handle_offer_steps == <<"medias", "set-remote-description", "create-answer">>

\* Variant: the transceiver is requested before the pad is created
media_steps_leg_first == <<"add-transceiver", "create_and_probe_src_pad">>

\* the statements of the loop body of handle_offer for a line with caps
media_steps == <<"create_and_probe_src_pad", "add-transceiver">>

\* Variant: the answer is sent before it is set as local description
on_answer_created_steps_send_first ==
    <<"reply", "send_sdp", "set-local-description">>

\* the statements of on_answer_created, in program order
on_answer_created_steps == <<"reply", "set-local-description", "send_sdp">>

\* the statement that follows `pc` in `steps`, "done" after the last one
step_after(steps, pc) ==
    LET at_pc == {i \in DOMAIN steps : steps[i] = pc}
    IN  IF at_pc = {} \/ (CHOOSE i \in at_pc : TRUE) = Len(steps) THEN "done"
        ELSE steps[(CHOOSE i \in at_pc : TRUE) + 1]

idle_when_done(pc) == IF pc = "done" THEN "idle" ELSE pc

round_line == unwrap(round.offer).medias[round.k]

\* the filter closure of the line dereferences codec_names: some format of
\* the line is a payload type with caps
reads_codec_names(line) == \E f \in DOMAIN line.formats : is_some(line.formats[f])

\* Variant: the codec names are read from the settings at every dereference
lazy_force_uncached(cell, line, s) ==
    IF reads_codec_names(line) THEN Some(all_codec_names(s)) ELSE cell

\* Lazy::new(|| self.all_codec_names()): the closure runs at the first
\* dereference and its result is kept for the rest of handle_offer
lazy_force(cell, line, s) ==
    IF is_some(cell) \/ ~reads_codec_names(line) THEN cell
    ELSE Some(all_codec_names(s))

\* codec_names once the caps of the current line were collected
round_codec_names == lazy_force(round.codec_names, round_line, settings)

\* the caps collected for the current line at the head of the loop; a line
\* that never dereferences codec_names keeps none of its formats
head_caps ==
    IF is_some(round_codec_names)
    THEN media_caps(round_line, unwrap(round_codec_names))
    ELSE <<>>

\* the caps of the current line in the body of the loop, as they were
\* collected at its head
round_caps == media_caps(round_line, unwrap(round.codec_names))

\* the caps of the current line are collected: the names its payloads were
\* judged against, if they were judged
judged_line(r) ==
    [r EXCEPT !.codec_names = round_codec_names,
              !.judged = IF reads_codec_names(round_line)
                         THEN Append(@, unwrap(round_codec_names))
                         ELSE @]

round_stream_id == get_stream_id(settings.signaller, NoneOpt, Some(round.k - 1))

\* the loop goes on with the next media line
next_line == [round EXCEPT !.offer_pc = "medias", !.k = @ + 1]

\* the loop body goes on with the statement after `pc`, or with the next line
after_media_step(pc) ==
    IF step_after(media_steps, pc) = "done" THEN next_line
    ELSE [round EXCEPT !.offer_pc = step_after(media_steps, pc)]

\* the session-description closure calls handle_offer: self.subscriber_pc()
round_offer(offer, peer) ==
    /\ ~panicked
    /\ signaller_state = "Started"
    /\ n_offers < MaxOffers
    /\ round.offer_pc = "idle"
    /\ n_offers' = n_offers + 1
    /\ IF ~is_some(subscriber_pc)
       THEN panicked' = TRUE /\ round' = round
       ELSE /\ panicked' = panicked
            /\ round' = [round EXCEPT !.offer_pc = handle_offer_steps[1],
                                      !.offer = Some(offer),
                                      !.peer = peer,
                                      !.k = 1,
                                      !.legs0 = Len(transceivers),
                                      !.codec_names = NoneOpt,
                                      !.judged = <<>>]
    /\ UNCHANGED <<settings, lifecycle_vars, pad_vars, leg_vars, promises, sent_sdp,
                   errors, routing_vars, pure_vars, signal_vars, loop_vars, last_change, ice_events, prop_log, lock_vars>>

\* the head of the loop over the media lines: the caps of the line and its
\* stream id
round_media ==
    /\ ~panicked
    /\ round.offer_pc = "medias"
    /\ IF round.k > Len(unwrap(round.offer).medias)
       THEN /\ round' = [round EXCEPT !.offer_pc =
                            idle_when_done(step_after(handle_offer_steps, "medias"))]
            /\ panicked' = panicked
       ELSE IF head_caps = <<>>
       THEN round' = judged_line(next_line) /\ panicked' = panicked
       ELSE IF round_stream_id \in {None, Panic}
       THEN round' = judged_line(round) /\ panicked' = TRUE
       ELSE /\ round' = judged_line([round EXCEPT !.offer_pc = media_steps[1]])
            /\ panicked' = panicked
    /\ UNCHANGED <<settings, lifecycle_vars, pad_vars, leg_vars, promises, sent_sdp,
                   errors, routing_vars, n_offers, pure_vars, signal_vars, loop_vars, last_change, ice_events, prop_log,
                   lock_vars>>

\* create_and_probe_src_pad for the line; the rest of the body is skipped
\* when it returns false
round_pad ==
    /\ ~panicked
    /\ round.offer_pc = "create_and_probe_src_pad"
    /\ LET st0 == [src_pads |-> src_pads, n_video_pads |-> n_video_pads,
                   n_audio_pads |-> n_audio_pads, n_pads |-> n_pads,
                   transceivers |-> transceivers, panicked |-> FALSE,
                   created |-> FALSE]
           r == create_and_probe_src_pad(st0, round_caps, round_stream_id, round.peer)
       IN  /\ src_pads' = r.src_pads
           /\ n_video_pads' = r.n_video_pads
           /\ n_audio_pads' = r.n_audio_pads
           /\ n_pads' = r.n_pads
           /\ panicked' = r.panicked
           /\ round' = IF r.panicked THEN round
                       ELSE IF ~r.created THEN next_line
                       ELSE after_media_step("create_and_probe_src_pad")
    /\ UNCHANGED <<settings, lifecycle_vars, leg_vars, promises, sent_sdp, errors,
                   routing_vars, n_offers, pure_vars, signal_vars, loop_vars, last_change, ice_events, prop_log, lock_vars>>

\* add-transceiver for the line, do_nack and fec-type
round_leg ==
    /\ ~panicked
    /\ round.offer_pc = "add-transceiver"
    /\ transceivers' = Append(transceivers, add_transceiver("recvonly", round_caps))
    /\ round' = after_media_step("add-transceiver")
    /\ UNCHANGED <<settings, lifecycle_vars, pad_vars, remote_description,
                   local_description, promises, sent_sdp, errors, routing_vars,
                   panicked, n_offers, pure_vars, signal_vars, loop_vars, last_change, ice_events, prop_log, lock_vars>>

\* set-remote-description with the offer
round_set_remote ==
    /\ ~panicked
    /\ round.offer_pc = "set-remote-description"
    /\ remote_description' = set_remote_description(unwrap(round.offer))
    /\ round' = [round EXCEPT !.offer_pc =
                    idle_when_done(step_after(handle_offer_steps, "set-remote-description"))]
    /\ UNCHANGED <<settings, lifecycle_vars, pad_vars, transceivers, local_description,
                   promises, sent_sdp, errors, routing_vars, panicked, n_offers,
                   pure_vars, signal_vars, loop_vars, last_change, ice_events, prop_log, lock_vars>>

\* create-answer with the promise that calls on_answer_created
round_create_answer ==
    /\ ~panicked
    /\ round.offer_pc = "create-answer"
    /\ promises' = create_answer(promises, unwrap(subscriber_pc), unwrap(round.offer))
    /\ round' = [round EXCEPT !.offer_pc =
                    idle_when_done(step_after(handle_offer_steps, "create-answer"))]
    /\ UNCHANGED <<settings, lifecycle_vars, pad_vars, leg_vars, sent_sdp, errors,
                   routing_vars, panicked, n_offers, pure_vars, signal_vars, loop_vars, last_change, ice_events, prop_log,
                   lock_vars>>

\* on_answer_created is called with the reply of the oldest promise: the
\* reply is validated and the answer taken out of it
round_reply(reply) ==
    /\ ~panicked
    /\ round.answer_pc = "idle"
    /\ promises # <<>>
    /\ promises' = Tail(promises)
    /\ LET err == reply_error(reply)
       IN  IF is_some(err)
           THEN /\ errors' = Append(errors, unwrap(err))
                /\ round' = round
           ELSE /\ errors' = errors
                /\ round' = [round EXCEPT
                                !.answer_pc = idle_when_done(
                                    step_after(on_answer_created_steps, "reply")),
                                !.answer = Some(Answer(Head(promises).offer)),
                                !.local_for = NoneOpt]
    /\ UNCHANGED <<settings, lifecycle_vars, pad_vars, leg_vars, sent_sdp,
                   routing_vars, panicked, n_offers, pure_vars, signal_vars, loop_vars, last_change, ice_events, prop_log,
                   lock_vars>>

\* set-local-description with the answer, without a promise; `applied` tells
\* whether the subscriber webrtcbin accepts it
round_set_local(applied) ==
    /\ ~panicked
    /\ round.answer_pc = "set-local-description"
    /\ IF ~is_some(subscriber_pc)
       THEN panicked' = TRUE /\ round' = round /\ local_description' = local_description
       ELSE /\ panicked' = panicked
            /\ local_description' = IF applied THEN round.answer ELSE local_description
            /\ round' = [round EXCEPT
                            !.answer_pc = idle_when_done(
                                step_after(on_answer_created_steps,
                                           "set-local-description")),
                            !.local_for = round.answer]
    /\ UNCHANGED <<settings, lifecycle_vars, pad_vars, transceivers, remote_description,
                   promises, sent_sdp, errors, routing_vars, n_offers, pure_vars, signal_vars, loop_vars, last_change,
                   ice_events, prop_log, lock_vars>>

\* signaller.send_sdp with the session id and the answer
round_send ==
    /\ ~panicked
    /\ round.answer_pc = "send_sdp"
    /\ sent_sdp' = Append(sent_sdp,
                          [session_id |-> session_id, sdp |-> unwrap(round.answer)])
    /\ round' = [round EXCEPT !.answer_pc =
                    idle_when_done(step_after(on_answer_created_steps, "send_sdp"))]
    /\ UNCHANGED <<settings, lifecycle_vars, pad_vars, leg_vars, promises, errors,
                   routing_vars, panicked, n_offers, pure_vars, signal_vars, loop_vars, last_change, ice_events, prop_log,
                   lock_vars>>

round_idle == round.offer_pc = "idle" /\ round.answer_pc = "idle"

RoundNext ==
    \/ round_idle /\ NullToReady(TRUE, "ok")
    \/ round_idle /\ ReadyToPaused(TRUE)
    \/ round_idle /\ PausedToPlaying(TRUE)
    \/ round_idle /\ PlayingToPaused(TRUE)
    \/ round_idle /\ PausedToReady(TRUE)
    \/ \E offer \in Offers, peer \in Peers : round_offer(offer, peer)
    \/ round_media
    \/ round_pad
    \/ round_leg
    \/ round_set_remote
    \/ round_create_answer
    \/ \E reply \in {"answer", "empty"} : round_reply(reply)
    \/ \E applied \in BOOLEAN : round_set_local(applied)
    \/ round_send

SpecRound == Init /\ [][RoundNext]_vars

\* ---------------------------------------------------------------------------
\* Resolution of raw tracks: the element is brought to Playing, offers are
\* answered, the signaller is replaced with set_signaller and the subscriber
\* webrtcbin adds its pads. One offer is handled in a behaviour, so that every
\* source pad is the only one created for its media line
\* ---------------------------------------------------------------------------
ResolveNext ==
    \/ NullToReady(TRUE, "ok")
    \/ ReadyToPaused(TRUE)
    \/ PausedToPlaying(TRUE)
    \/ \E signaller \in {SigNoUri, SigUriA, SigUriB} : set_signaller(signaller)
    \/ \E desc \in Offers : n_offers = 0 /\ session_description(desc, "unlinked")
    \/ on_answer_created("answer")
    \/ \E mlineindex \in 0 .. MaxMline : handle_webrtc_src_pad(mlineindex, FALSE)

SpecResolve == Init /\ [][ResolveNext]_vars

\* ---------------------------------------------------------------------------
\* The closures connected to the signallers: set_signaller connects the four
\* closures on the new signaller, and any signaller object may emit a signal
\* ---------------------------------------------------------------------------
MaxReplacements == 2

MaxSignals == 2

SignalKinds == {"session-description", "handle-ice", "error", "request-meta"}

\* the connect_signaller calls so far, the one of constructed() included
Connections(h) ==
    h.connected[SigNoUri] + h.connected[SigUriUnset]
        + h.connected[SigUriA] + h.connected[SigUriB]

\* set_signaller with the closures followed: connect_signaller on the new
\* signaller, then settings.signaller = signaller
replace_signaller(signaller) ==
    /\ ~panicked
    /\ Connections(handlers) <= MaxReplacements
    /\ handlers' = connect_signaller(handlers, signaller)
    /\ settings' = [settings EXCEPT !.signaller = signaller]
    /\ UNCHANGED <<lifecycle_vars, pad_vars, leg_vars, promises, sent_sdp, errors,
                   routing_vars, panicked, n_offers, pure_vars, ice_events,
                   prop_log, lock_vars, round, sig_events, last_change, loop_vars>>

\* A signaller object emits one of its four signals: every closure connected
\* on that object for the signal runs once (the bodies of the closures are
\* session_description, handle_ice_closure and signaller_error)
signaller_emits(from, kind) ==
    /\ ~panicked
    /\ Len(sig_events) < MaxSignals
    /\ sig_events' = Append(sig_events,
                            [from |-> from, kind |-> kind,
                             current |-> settings.signaller,
                             handled |-> handlers.connected[from]])
    /\ UNCHANGED <<settings, lifecycle_vars, pad_vars, leg_vars, promises,
                   sent_sdp, errors, routing_vars, panicked, n_offers, pure_vars,
                   ice_events, prop_log, lock_vars, round, handlers, last_change, loop_vars>>

HandlersNext ==
    \/ \E signaller \in Signallers : replace_signaller(signaller)
    \/ \E from \in Signallers, kind \in SignalKinds : signaller_emits(from, kind)

SpecHandlers == Init /\ [][HandlersNext]_vars

\* ---------------------------------------------------------------------------
\* The legs seen by the handlers of the signaller: every state change, with a
\* parent class that may fail and a prepare that may fail, offers of the
\* started signaller, the answer promise and remote candidates
\* ---------------------------------------------------------------------------
StartedNext ==
    \/ \E parent_ok \in BOOLEAN, result \in PrepareResults :
          NullToReady(parent_ok, result)
    \/ \E parent_ok \in BOOLEAN : ReadyToPaused(parent_ok)
    \/ \E parent_ok \in BOOLEAN : PausedToPlaying(parent_ok)
    \/ \E parent_ok \in BOOLEAN : PlayingToPaused(parent_ok)
    \/ \E parent_ok \in BOOLEAN : PausedToReady(parent_ok)
    \/ \E parent_ok \in BOOLEAN : ReadyToNull(parent_ok)
    \/ \E desc \in Offers, peer \in NegotiationPeers : session_description(desc, peer)
    \/ on_answer_created("answer")
    \/ \E sdp_m_line_index \in 0 .. 1 : handle_ice_closure(session_id, sdp_m_line_index, NoneOpt, "candidate:0")

SpecStarted == Init /\ [][StartedNext]_vars

\* ---------------------------------------------------------------------------
\* Teardown step by step: unprepare stops the signaller, removes the source
\* pads it finds and then resets the counters, with no lock shared with
\* handle_offer, so the closure of an offer that the signaller emitted before
\* it was stopped may run between the two steps
\* ---------------------------------------------------------------------------
\* the thread that runs the state changes of the element
StateChangeThread == 1

\* unprepare up to the end of the loop over obj.src_pads()
unprepare_remove_pads(t) ==
    /\ ~panicked
    /\ gst_state = "Paused"
    /\ thread_pc[t] = "idle"
    /\ signaller_state' = signaller_state_after_stop(signaller_state)
    /\ signaller_calls' = IF signaller_state = "Started"
                          THEN called(signaller_calls, "stop")
                          ELSE signaller_calls
    /\ src_pads' = <<>>
    /\ thread_pc' = at(t, "reset_counters")
    /\ UNCHANGED <<settings, gst_state, element_bins, consumers, publisher_pc,
                   subscriber_pc, n_prepares, n_video_pads, n_audio_pads, n_pads,
                   leg_vars, promises, sent_sdp, errors, routing_vars, panicked,
                   n_offers, pure_vars, signal_vars, loop_vars, last_change, ice_events, prop_log, locks,
                   round>>

\* unprepare from n_video_pads.store(0) on, and the end of the transition
unprepare_reset_counters(t, parent_ok) ==
    /\ thread_pc[t] = "reset_counters"
    /\ n_video_pads' = 0
    /\ n_audio_pads' = 0
    /\ gst_state' = IF parent_ok THEN "Ready" ELSE gst_state
    /\ thread_pc' = at(t, "idle")
    /\ last_change' = changed("PausedToReady", parent_ok, TRUE)
    /\ UNCHANGED <<settings, signaller_state, signaller_calls, element_bins,
                   consumers, publisher_pc, subscriber_pc, n_prepares, src_pads,
                   n_pads, leg_vars, promises, sent_sdp, errors, routing_vars,
                   panicked, n_offers, pure_vars, signal_vars, loop_vars, ice_events,
                   prop_log, locks, round>>

NamesNext ==
    \/ thread_pc[StateChangeThread] = "idle" /\ NullToReady(TRUE, "ok")
    \/ thread_pc[StateChangeThread] = "idle" /\ ReadyToPaused(TRUE)
    \/ thread_pc[StateChangeThread] = "idle" /\ PausedToPlaying(TRUE)
    \/ thread_pc[StateChangeThread] = "idle" /\ PlayingToPaused(TRUE)
    \/ unprepare_remove_pads(StateChangeThread)
    \/ \E parent_ok \in BOOLEAN :
          unprepare_reset_counters(StateChangeThread, parent_ok)
    \/ \E desc \in Offers : session_description_emitted(desc, "unlinked")
    \/ session_description_handled

SpecNames == Init /\ [][NamesNext]_vars

\* ---------------------------------------------------------------------------
\* The codec lists while an offer is handled: handle_offer runs step by step
\* and audio-codecs or video-codecs may be written between any two steps
\* ---------------------------------------------------------------------------
CodecLists == {<<>>, <<"OPUS">>, <<"VP8">>}

CodecsNext ==
    \/ round_idle /\ NullToReady(TRUE, "ok")
    \/ round_idle /\ ReadyToPaused(TRUE)
    \/ round_idle /\ PausedToPlaying(TRUE)
    \/ \E offer \in Offers : round_offer(offer, "unlinked")
    \/ round_media
    \/ round_pad
    \/ round_leg
    \/ round_set_remote
    \/ round_create_answer
    \/ \E name \in {"audio-codecs", "video-codecs"}, value \in CodecLists :
          set_property(name, value)

SpecCodecs == Init /\ [][CodecsNext]_vars

\* ---------------------------------------------------------------------------
\* Candidates in both directions: the handle-ice closure of the signaller and
\* the on-ice-candidate closures prepare connects on both legs
\* ---------------------------------------------------------------------------
PeerIds == {"-", "PA_remote"}
Candidates == {"candidate:1 1 UDP", "candidate:2 1 TCP"}
Legs == {"publisher", "subscriber"}

\* the leg a closure of prepare belongs to has been created
leg_exists(leg) ==
    IF leg = "publisher" THEN is_some(publisher_pc) ELSE is_some(subscriber_pc)

\* on_ice_candidate: the candidate of either leg goes to the current
\* signaller's add_ice under the constant session id, without a mid
on_ice_candidate(leg, sdp_m_line_index, candidate) ==
    /\ ~panicked
    /\ leg_exists(leg)
    /\ Len(ice_events) < MaxIce
    /\ ice_events' = Append(ice_events,
                        ice_event(leg, "", Some(sdp_m_line_index), candidate,
                                  "add_ice", "signaller",
                                  Some(sdp_m_line_index), session_id))
    /\ UNCHANGED <<settings, lifecycle_vars, pad_vars, leg_vars, promises,
                   sent_sdp, errors, routing_vars, panicked, n_offers, pure_vars, signal_vars, loop_vars, last_change, prop_log,
                   lock_vars, round>>

CandidatesNext ==
    \/ \E result \in PrepareResults : NullToReady(TRUE, result)
    \/ ReadyToPaused(TRUE)
    \/ PausedToReady(TRUE)
    \/ \E peer_id \in PeerIds, sdp_m_line_index \in 0 .. 1, candidate \in Candidates :
          handle_ice_closure(peer_id, sdp_m_line_index, NoneOpt, candidate)
    \/ \E leg \in Legs, sdp_m_line_index \in 0 .. 1, candidate \in Candidates :
          on_ice_candidate(leg, sdp_m_line_index, candidate)

SpecCandidates == Init /\ [][CandidatesNext]_vars

\* ---------------------------------------------------------------------------
\* loopfilesrcbin: the property accessors, start and stop as change_state
\* runs them, and handle_message, one mutex acquisition at a time. The thread
\* "change_state" changes the state of the element, the thread "streaming"
\* delivers the messages of the children.
\* ---------------------------------------------------------------------------
MaxStarts == 2
MaxMessages == 2

Locations == {"", "loop.mkv"}

FragmentStarted == [type |-> "Element", name |-> "splitmuxsrc-fragment-started"]

Messages ==
    {FragmentStarted,
     [type |-> "Element", name |-> "splitmuxsrc-fragment-info"],
     [type |-> "Application", name |-> "splitmuxsrc-fragment-started"]}

\* the two early returns of handle_message do not apply
is_fragment_started(msg) ==
    msg.type = "Element" /\ msg.name = "splitmuxsrc-fragment-started"

\* enqueue_fragment emitting add-fragment twice
enqueue_fragment_twice(emissions, state, location) ==
    Append(Append(emissions, [splitmuxsrc |-> state.splitmuxsrc, location |-> location]),
           [splitmuxsrc |-> state.splitmuxsrc, location |-> location])

\* State::enqueue_fragment: one add-fragment emission on the splitmuxsrc of
\* the State, with the location and no offset or duration
enqueue_fragment(emissions, state, location) ==
    Append(emissions, [splitmuxsrc |-> state.splitmuxsrc, location |-> location])

loop_at(thread, pc) == [loop_pc EXCEPT ![thread] = pc]

\* set_property("location"): GObject does not enforce mutable_ready
loop_set_property(location) ==
    /\ loop_locks.settings = "free"
    /\ loop_settings.location # location
    /\ loop_settings' = [loop_settings EXCEPT !.location = location]
    /\ UNCHANGED <<livekit_vars, loop_gst_state, loop_state, loop_locks, loop_pc,
                   add_fragment, parent_messages, loop_handled, loop_read,
                   loop_nested, n_starts>>

\* property("location")
loop_property ==
    /\ loop_locks.settings = "free"
    /\ loop_read' = Some(loop_settings.location)
    /\ UNCHANGED <<livekit_vars, loop_gst_state, loop_settings, loop_state,
                   loop_locks, loop_pc, add_fragment, parent_messages,
                   loop_handled, loop_nested, n_starts>>

\* change_state(NullToReady) enters start: self.state.lock()
loop_start_lock_state ==
    /\ loop_gst_state = "Null"
    /\ loop_pc.change_state = "idle"
    /\ n_starts < MaxStarts
    /\ loop_locks.state = "free"
    /\ loop_locks' = [loop_locks EXCEPT !.state = "change_state"]
    /\ loop_pc' = loop_at("change_state", "start")
    /\ n_starts' = n_starts + 1
    /\ UNCHANGED <<livekit_vars, loop_gst_state, loop_settings, loop_state,
                   add_fragment, parent_messages, loop_handled, loop_read,
                   loop_nested>>

\* start makes the two elements and adds them to the bin; an error returns
\* from start and from change_state with the state guard dropped, otherwise
\* start goes on to self.settings.lock() with the state guard held
loop_start_make(result) ==
    /\ loop_pc.change_state = "start"
    /\ IF result = "ok"
       THEN /\ loop_pc' = loop_at("change_state", "start_settings")
            /\ loop_nested' = loop_nested \cup {<<"state", "settings">>}
            /\ loop_locks' = loop_locks
       ELSE /\ loop_pc' = loop_at("change_state", "idle")
            /\ loop_nested' = loop_nested
            /\ loop_locks' = [loop_locks EXCEPT !.state = "free"]
    /\ UNCHANGED <<livekit_vars, loop_gst_state, loop_settings, loop_state,
                   add_fragment, parent_messages, loop_handled, loop_read,
                   n_starts>>

\* start from self.settings.lock() on: the new State gets the location as its
\* first fragment and is stored; then change_state chains up
loop_start_store(parent_ok) ==
    /\ loop_pc.change_state = "start_settings"
    /\ loop_locks.settings = "free"
    /\ LET state == [splitmuxsrc |-> n_starts]
       IN  /\ add_fragment' = enqueue_fragment(add_fragment, state,
                                               loop_settings.location)
           /\ loop_state' = Some(state)
    /\ loop_locks' = [loop_locks EXCEPT !.state = "free"]
    /\ loop_pc' = loop_at("change_state", "idle")
    /\ loop_gst_state' = IF parent_ok THEN "Ready" ELSE "Null"
    /\ UNCHANGED <<livekit_vars, loop_settings, parent_messages, loop_handled,
                   loop_read, loop_nested, n_starts>>

\* change_state for the transitions that neither start nor stop
loop_change_state(transition, parent_ok) ==
    /\ loop_pc.change_state = "idle"
    /\ loop_gst_state = transition.from
    /\ loop_gst_state' = IF parent_ok THEN transition.to ELSE loop_gst_state
    /\ UNCHANGED <<livekit_vars, loop_settings, loop_state, loop_locks, loop_pc,
                   add_fragment, parent_messages, loop_handled, loop_read,
                   loop_nested, n_starts>>

\* change_state(ReadyToNull): stop runs after the parent class, whatever the
\* parent returned; it empties the bin and stores None under the state mutex
loop_stop(parent_ok) ==
    /\ loop_pc.change_state = "idle"
    /\ loop_gst_state = "Ready"
    /\ loop_locks.state = "free"
    /\ loop_state' = NoneOpt
    /\ loop_gst_state' = IF parent_ok THEN "Null" ELSE "Ready"
    /\ UNCHANGED <<livekit_vars, loop_settings, loop_locks, loop_pc,
                   add_fragment, parent_messages, loop_handled, loop_read,
                   loop_nested, n_starts>>

\* handle_message for anything but an element message named
\* splitmuxsrc-fragment-started: parent_handle_message(msg)
loop_handle_other(msg) ==
    /\ loop_pc.streaming = "idle"
    /\ Len(loop_handled) < MaxMessages
    /\ ~is_fragment_started(msg)
    /\ parent_messages' = Append(parent_messages, msg)
    /\ loop_handled' = Append(loop_handled, msg)
    /\ UNCHANGED <<livekit_vars, loop_gst_state, loop_settings, loop_state,
                   loop_locks, loop_pc, add_fragment, loop_read, loop_nested,
                   n_starts>>

\* handle_message for splitmuxsrc-fragment-started: self.settings.lock()
loop_handle_lock_settings(msg) ==
    /\ loop_pc.streaming = "idle"
    /\ Len(loop_handled) < MaxMessages
    /\ is_fragment_started(msg)
    /\ loop_locks.settings = "free"
    /\ loop_locks' = [loop_locks EXCEPT !.settings = "streaming"]
    /\ loop_pc' = loop_at("streaming", "handle_message")
    /\ loop_nested' = loop_nested \cup {<<"settings", "state">>}
    /\ UNCHANGED <<livekit_vars, loop_gst_state, loop_settings, loop_state,
                   add_fragment, parent_messages, loop_handled, loop_read,
                   n_starts>>

\* handle_message from self.state.lock() on: the location is enqueued if there
\* is a State; both guards are dropped and the message is not passed on
loop_handle_lock_state ==
    /\ loop_pc.streaming = "handle_message"
    /\ loop_locks.state = "free"
    /\ add_fragment' = IF is_some(loop_state)
                       THEN enqueue_fragment(add_fragment, unwrap(loop_state),
                                             loop_settings.location)
                       ELSE add_fragment
    /\ loop_locks' = [loop_locks EXCEPT !.settings = "free"]
    /\ loop_pc' = loop_at("streaming", "idle")
    /\ loop_handled' = Append(loop_handled, FragmentStarted)
    /\ UNCHANGED <<livekit_vars, loop_gst_state, loop_settings, loop_state,
                   parent_messages, loop_read, loop_nested, n_starts>>

LoopTransitions ==
    {[from |-> "Ready", to |-> "Paused"], [from |-> "Paused", to |-> "Ready"]}

LoopNext ==
    \/ \E location \in Locations : loop_set_property(location)
    \/ loop_property
    \/ loop_start_lock_state
    \/ \E result \in {"ok", "error"} : loop_start_make(result)
    \/ \E parent_ok \in BOOLEAN : loop_start_store(parent_ok)
    \/ \E transition \in LoopTransitions, parent_ok \in BOOLEAN :
          loop_change_state(transition, parent_ok)
    \/ \E parent_ok \in BOOLEAN : loop_stop(parent_ok)
    \/ \E msg \in Messages : loop_handle_other(msg)
    \/ \E msg \in Messages : loop_handle_lock_settings(msg)
    \/ loop_handle_lock_state

SpecLoop == Init /\ [][LoopNext]_vars

\* ---------------------------------------------------------------------------
\* The payload filter of handle_offer on its own: one format of one media
\* line, against the codec names of the settings
\* ---------------------------------------------------------------------------
filter_call(media, k) ==
    /\ ~panicked
    /\ k \in DOMAIN media.formats
    /\ flt_call' = Some([media |-> media,
                         k |-> k,
                         codec_names |-> all_codec_names(settings),
                         out |-> filter_payload(media, media.formats[k],
                                                all_codec_names(settings))])
    /\ UNCHANGED <<settings, lifecycle_vars, pad_vars, leg_vars, promises,
                   sent_sdp, errors, routing_vars, panicked, n_offers, in_flight,
                   last_reply, sid_calls, aux_vars>>

FilterInit ==
    /\ gst_state = "Null"
    /\ \E decoders \in AllDecoderSets : settings = DefaultSettings(SigNoUri, decoders)
    /\ signaller_state = "Stopped"
    /\ signaller_calls = <<>>
    /\ element_bins = {}
    /\ consumers = <<>>
    /\ in_flight = NoneOpt
    /\ publisher_pc = NoneOpt
    /\ subscriber_pc = NoneOpt
    /\ n_video_pads = 0
    /\ n_audio_pads = 0
    /\ src_pads = <<>>
    /\ transceivers = <<>>
    /\ remote_description = NoneOpt
    /\ local_description = NoneOpt
    /\ promises = <<>>
    /\ sent_sdp = <<>>
    /\ errors = <<>>
    /\ filter_requests = <<>>
    /\ branches = <<>>
    /\ panicked = FALSE
    /\ n_prepares = 0
    /\ n_offers = 0
    /\ n_pads = 0
    /\ last_reply = NoneOpt
    /\ AuxInit
    /\ sid_calls = <<>>
    /\ flt_call = NoneOpt

FilterNext == \E media \in FilterLines, k \in 1 .. 4 : filter_call(media, k)

SpecFilter == FilterInit /\ [][FilterNext]_vars

\* ===========================================================================
\* Properties
\* ===========================================================================
OfferA == Offer(<<L_opus, L_h266>>)

OfferB == Offer(<<L_vp8, L_opus_plain, L_app, L_bad_attributes>>)

\* C1: at most one offer is in processing at any time, that is, at most one
\* answer is pending on the subscriber leg.
C1_OneOfferInProcessing == Len(promises) <= 1

\* C2: once teardown has stopped the signaller, an answer promise that fires
\* sets no local description, sends nothing through the signaller and does
\* not panic.
C2_LateAnswerIsNoOp ==
    [][(signaller_state = "Stopped" /\ Len(promises') < Len(promises))
          => (/\ local_description' = local_description
              /\ sent_sdp' = sent_sdp
              /\ ~panicked')]_vars

\* C3: no two source pads of the element carry the same stream id.
C3_TrackIdsUnique ==
    \A i, j \in DOMAIN src_pads :
        i # j => src_pads[i].stream_id # src_pads[j].stream_id

Digit == <<"0", "1", "2", "3", "4", "5", "6", "7", "8", "9">>

RECURSIVE Decimal(_)
Decimal(n) ==
    IF n < 10 THEN Digit[n + 1] ELSE Decimal(n \div 10) \o Digit[(n % 10) + 1]

CallIndex(c) ==
    IF is_some(c.transceiver) THEN Some(unwrap(c.transceiver).mlineindex) ELSE c.mline

SourceOf(signaller) ==
    IF signaller.has_uri /\ signaller.uri # None THEN signaller.uri ELSE session_id

CallSource(c) == SourceOf(c.signaller)

CallDerived(c) == is_some(CallIndex(c)) /\ c.result # Panic

\* C4: the stream id is a function of the identity source and the mline
\* index only: two calls with the same source agree exactly when their
\* indices agree, and every id is the SHA-256 hex digest of the source, a
\* colon and the index in decimal.
C4_StreamIdPure ==
    \A a, b \in DOMAIN sid_calls :
        LET ca == sid_calls[a]
            cb == sid_calls[b]
        IN  (CallDerived(ca) /\ CallDerived(cb)) =>
               /\ ca.result = Sha256Hex(CallSource(ca)) \o ":" \o Decimal(unwrap(CallIndex(ca)))
               /\ CallSource(ca) = CallSource(cb) =>
                     ((CallIndex(ca) = CallIndex(cb)) <=> (ca.result = cb.result))

C4_Witness ==
    /\ Len(sid_calls) = 2
    /\ CallDerived(sid_calls[1]) /\ CallDerived(sid_calls[2])
    /\ CallSource(sid_calls[1]) = CallSource(sid_calls[2])
    /\ CallIndex(sid_calls[1]) # CallIndex(sid_calls[2])
    /\ is_some(sid_calls[1].transceiver) /\ ~is_some(sid_calls[2].transceiver)

\* C5: whenever an mline index is available the derivation yields the id of
\* the signaller's uri, or of the session placeholder when there is no uri
\* property or its value is unset, and never panics; it yields no id only
\* when neither a transceiver nor an mline index is given.
C5_DerivationTotal ==
    /\ ~panicked
    /\ \A k \in DOMAIN sid_calls :
          LET c == sid_calls[k]
          IN  IF is_some(CallIndex(c))
              THEN c.result = Sha256Hex(CallSource(c)) \o ":"
                                 \o Decimal(unwrap(CallIndex(c)))
              ELSE c.result = None

HasAllowedPayload(line, names) ==
    \E k \in DOMAIN line.formats :
        /\ line.formats[k] # <<>>
        /\ K_encoding_name \in DOMAIN line.formats[k][1]
        /\ line.formats[k][1][K_encoding_name].t = "str"
        /\ line.formats[k][1][K_encoding_name].v \in names

\* the lines of an offer with at least one payload of an allowed codec
LinesWithAllowedCodec(o, names) ==
    {i \in DOMAIN o.medias : HasAllowedPayload(o.medias[i], names)}

\* those of them that are audio or video and whose attributes convert to caps
AcceptedLines(o, names) ==
    {i \in LinesWithAllowedCodec(o, names) :
        /\ o.medias[i].media \in {"audio", "video"}
        /\ o.medias[i].attributes_ok}

OfferStep == n_offers' = n_offers + 1

\* C6 as claimed: a handled offer adds one source pad and one transceiver for
\* each media line that has a payload of an allowed codec.
C6_OnePadPerAllowedLine ==
    [][(OfferStep /\ ~panicked') =>
          LET M == Cardinality(LinesWithAllowedCodec(unwrap(remote_description'),
                                                     all_codec_names(settings)))
          IN  /\ Len(src_pads') = Len(src_pads) + M
              /\ Len(transceivers') = Len(transceivers) + M]_vars

\* C6 amended: a handled offer adds exactly one source pad and one transceiver
\* for each audio or video line that has a payload of an allowed codec and
\* whose attributes convert to caps, the pad carrying the stream id of that
\* line's index, and nothing for the other lines; a handle_offer that panics
\* adds none.
C6_OnePadPerAcceptedLine ==
    [][OfferStep =>
          IF panicked'
          THEN src_pads' = src_pads /\ transceivers' = transceivers
          ELSE LET acc == AcceptedLines(unwrap(remote_description'),
                                        all_codec_names(settings))
                   added == {k \in DOMAIN src_pads' : k > Len(src_pads)}
               IN  /\ Len(src_pads') = Len(src_pads) + Cardinality(acc)
                   /\ Len(transceivers') = Len(transceivers) + Cardinality(acc)
                   /\ SubSeq(src_pads', 1, Len(src_pads)) = src_pads
                   /\ {src_pads'[k].stream_id : k \in added}
                        = {Sha256Hex(SourceOf(settings.signaller)) \o ":" \o Decimal(i - 1) :
                              i \in acc}]_vars

C6_Witness ==
    /\ ~panicked
    /\ remote_description = Some(OfferB)
    /\ n_offers = 1
    /\ Len(src_pads) = 2
    /\ Len(transceivers) = 2

IsRtcpKey(key) ==
    /\ Len(key) >= 5
    /\ key[1] = "r" /\ key[2] = "t" /\ key[3] = "c" /\ key[4] = "p" /\ key[5] = "-"

IsExtmapKey(key) ==
    /\ Len(key) >= 7
    /\ key[1] = "e" /\ key[2] = "x" /\ key[3] = "t" /\ key[4] = "m"
    /\ key[5] = "a" /\ key[6] = "p" /\ key[7] = "-"

IsTwcc(fields, key) ==
    key \in DOMAIN fields /\ IsExtmapKey(key) /\ fields[key] = Str(RTP_TWCC_URI)

\* C7: a payload that survives filtering yields a structure without any
\* "rtcp-" field, with every other field of the payload, with the extmap
\* fields of the media line whose value is the TWCC URI and with no other
\* field of the media line.
C7_FilteredFields ==
    (flt_call # <<>> /\ flt_call[1].out # <<>>) =>
        LET c == flt_call[1]
            original == c.media.formats[c.k][1]
            attributes == c.media.attributes
            filtered == c.out[1].fields
            keys == (DOMAIN original) \cup (DOMAIN attributes) \cup (DOMAIN filtered)
        IN  /\ \A key \in DOMAIN filtered : ~IsRtcpKey(key)
            /\ \A key \in DOMAIN original :
                  ~IsRtcpKey(key) => (key \in DOMAIN filtered /\ filtered[key] = original[key])
            /\ \A key \in keys : IsTwcc(filtered, key) <=> IsTwcc(attributes, key)
            /\ \A key \in DOMAIN filtered :
                  key \in DOMAIN original \/ IsTwcc(attributes, key)

C7_Witness ==
    /\ flt_call # <<>>
    /\ flt_call[1].out # <<>>
    /\ \E key \in DOMAIN flt_call[1].media.formats[flt_call[1].k][1] : IsRtcpKey(key)
    /\ \E key \in DOMAIN flt_call[1].media.attributes :
          IsTwcc(flt_call[1].media.attributes, key)
    /\ \E key \in DOMAIN flt_call[1].media.attributes :
          IsExtmapKey(key) /\ ~IsTwcc(flt_call[1].media.attributes, key)

C9_NeedsDecodingWriteOnce ==
    [][\A i \in DOMAIN src_pads, j \in DOMAIN src_pads' :
          src_pads[i].id = src_pads'[j].id
              => src_pads'[j].needs_decoding = src_pads[i].needs_decoding]_vars

C9_Witness ==
    /\ n_offers = 2
    /\ \E i \in DOMAIN src_pads, b \in DOMAIN branches :
          /\ src_pads[i].needs_decoding
          /\ branches[b].srcpad = src_pads[i].id
          /\ src_pads[i].target = Some(Target("decodebin_src", b))
    /\ \E i \in DOMAIN src_pads :
          ~src_pads[i].needs_decoding /\ src_pads[i].target # <<>>

\* C10: a second webrtcbin pad that maps to a source pad that already has a
\* branch is ignored: no source pad gets a second branch or a second filter
\* request.
C10_SecondArrivalIgnored ==
    /\ \A a, b \in DOMAIN branches :
          (a # b /\ branches[a].srcpad # 0) => branches[a].srcpad # branches[b].srcpad
    /\ \A a, b \in DOMAIN filter_requests :
          a # b => filter_requests[a].pad # filter_requests[b].pad

\* the stream id that a webrtcbin pad with that mline index resolves to
ResolvedId(mlineindex) ==
    Sha256Hex(SourceOf(settings.signaller)) \o ":" \o Decimal(mlineindex)

\* a webrtcbin pad has just been handled and no source pad carried its id
UnsolicitedArrival ==
    /\ Len(branches') = Len(branches) + 1
    /\ \A i \in DOMAIN src_pads :
          src_pads[i].stream_id # ResolvedId(branches'[Len(branches')].webrtcbin_pad)

\* C11: a webrtcbin pad that resolves to no source pad only gets its ghost
\* pad: no filter request, no decodebin, parsebin or filter, no change to any
\* source pad, no element error and no panic.
C11_UnsolicitedTrackIgnored ==
    [][UnsolicitedArrival =>
          /\ filter_requests' = filter_requests
          /\ src_pads' = src_pads
          /\ errors' = errors
          /\ ~panicked'
          /\ SubSeq(branches', 1, Len(branches)) = branches
          /\ LET b == branches'[Len(branches')]
             IN  ~b.decodebin /\ ~b.parsebin /\ ~b.filter /\ b.srcpad = 0]_vars

C11_Witness ==
    /\ src_pads # <<>>
    /\ errors = <<>>
    /\ ~panicked
    /\ \E b \in DOMAIN branches :
          /\ branches[b].srcpad = 0
          /\ \A i \in DOMAIN src_pads :
                src_pads[i].stream_id # ResolvedId(branches[b].webrtcbin_pad)

\* the branches built for a source pad
RoutedBranches == {b \in DOMAIN branches : branches[b].srcpad # 0}

\* C12: request-encoded-filter is emitted once for each routed source pad and
\* never for a webrtcbin pad that resolves to none; no source pad gets more
\* than one request.
C12_OneFilterRequestPerEndpoint ==
    /\ Len(filter_requests) = Cardinality(RoutedBranches)
    /\ \A b \in RoutedBranches :
          Cardinality({r \in DOMAIN filter_requests :
                          filter_requests[r].pad = branches[b].srcpad}) = 1

\* a create-answer promise has just been fulfilled
PromiseStep == Len(promises') < Len(promises)

EmptyOfferStep ==
    /\ OfferStep
    /\ ~panicked'
    /\ src_pads' = src_pads
    /\ transceivers' = transceivers

\* C14: an offer in which no media line survives the codec filter posts a
\* stream error on the element and requests no answer.
C14_EmptyOfferFails ==
    [][EmptyOfferStep =>
          /\ Len(errors') = Len(errors) + 1
          /\ errors'[Len(errors')].domain = "stream"
          /\ promises' = promises]_vars

\* C15: when the subscriber webrtcbin fails to take a description, the round
\* fails at once: an answer is sent through the signaller only when it has
\* become the local description of the subscriber leg.
C15_NoAnswerAfterTransportFailure ==
    [][sent_sdp' # sent_sdp =>
          local_description' = Some(sent_sdp'[Len(sent_sdp')].sdp)]_vars

\* the closure of the signaller's error event has just run
SignallerErrorStep ==
    /\ errors' # errors
    /\ errors' # <<>>
    /\ errors'[Len(errors')].text \in SignallerErrors

\* C16: an error event of the signaller posts exactly one stream error on the
\* element and changes nothing else: the legs, the source pads, the pad
\* counters and the signaller state stay as they are, start() and stop() are
\* not called and no answer is requested.
C16_SignallerErrorOnlyPosts ==
    [][SignallerErrorStep =>
          /\ Len(errors') = Len(errors) + 1
          /\ SubSeq(errors', 1, Len(errors)) = errors
          /\ errors'[Len(errors')].domain = "stream"
          /\ UNCHANGED <<publisher_pc, subscriber_pc, element_bins, consumers,
                         src_pads, n_video_pads, n_audio_pads, signaller_state,
                         signaller_calls, transceivers, remote_description,
                         local_description, promises, sent_sdp, gst_state>>]_vars

C16_Witness ==
    /\ Cardinality({i \in DOMAIN errors : is_signalling_error(errors[i])})
          = MaxSignallerErrors
    /\ signaller_state = "Started"
    /\ src_pads # <<>>
    /\ promises # <<>>

\* C17: whenever the element is below Paused the signaller is stopped, the
\* element has no source pad and both pad counters are zero.
C17_TornDownIsClean ==
    gst_state \in {"Null", "Ready"} =>
        /\ signaller_state = "Stopped"
        /\ src_pads = <<>>
        /\ n_audio_pads = 0
        /\ n_video_pads = 0

\* C18: the state holds a publisher leg exactly when it holds a subscriber
\* leg, the element never contains the legs of more than one prepare, and
\* after PausedToReady the state holds neither leg.
C18_LegsTogether ==
    [][/\ is_some(publisher_pc') <=> is_some(subscriber_pc')
       /\ Cardinality(element_bins') <= 1
       /\ (gst_state = "Paused" /\ gst_state' = "Ready") =>
             (publisher_pc' = NoneOpt /\ subscriber_pc' = NoneOpt)]_vars

\* a NullToReady in which prepare failed
PrepareFailedStep == n_prepares' = n_prepares + 1 /\ errors' # errors

\* C19: a failed prepare leaves the element in Null with no leg in the state,
\* no inner bin in the element and no leg announced to the signaller.
C19_FailedPrepareRollsBack ==
    [][PrepareFailedStep =>
          /\ gst_state' = "Null"
          /\ publisher_pc' = NoneOpt
          /\ subscriber_pc' = NoneOpt
          /\ element_bins' = element_bins
          /\ consumers' = consumers]_vars

\* C20: start() is called only on a stopped signaller and stop() only on a
\* started one, so the calls alternate, beginning with start(); start() is
\* called in PausedToPlaying only, never below Paused, and the signaller is
\* started when the element has gone from Paused to Playing.
C20_StartStopAlternate ==
    [][/\ signaller_calls' # signaller_calls =>
             LET call == signaller_calls'[Len(signaller_calls')]
             IN  /\ signaller_calls = <<>> => call = "start"
                 /\ signaller_calls # <<>> =>
                       call # signaller_calls[Len(signaller_calls)]
                 /\ call = "start" =>
                       /\ signaller_state = "Stopped"
                       /\ signaller_state' = "Started"
                       /\ gst_state = "Paused"
                 /\ call = "stop" =>
                       /\ signaller_state = "Started"
                       /\ signaller_state' = "Stopped"
       /\ signaller_state' # signaller_state => signaller_calls' # signaller_calls
       /\ (gst_state = "Paused" /\ gst_state' = "Playing") =>
             signaller_state' = "Started"]_vars

C20_Witness ==
    /\ signaller_calls = <<"stop", "start">>
    /\ signaller_state = "Started"
    /\ gst_state = "Playing"

\* ---------------------------------------------------------------------------
\* C21: a remote candidate delivered by the signaller is forwarded to a leg
\* or dropped with a log trace in every lifecycle state, before prepare
\* included; it never makes the handler panic.
\* ---------------------------------------------------------------------------
C21_IceHandledGracefully ==
    \A i \in DOMAIN ice_events :
        ice_events[i].outcome \in {"add-ice-candidate", "error_log"}

\* ---------------------------------------------------------------------------
\* C24: setting audio-codecs or video-codecs to any list of names never
\* fails; the names the registry does not know are dropped, and reading the
\* property back gives the known names of the list, in their order in the list
\* (repetitions included).
\* ---------------------------------------------------------------------------
KnownName(c) == c \in {"OPUS", "VP8", "H264"}

C24_CodecListRoundTrip ==
    /\ ~panicked
    /\ is_some(prop_log.read) =>
          LET name == unwrap(prop_log.read).name
              written == prop_log.written[name]
          IN  is_some(written) =>
                 unwrap(prop_log.read).value = SelectSeq(unwrap(written), KnownName)

C24_Witness ==
    /\ is_some(prop_log.read)
    /\ unwrap(prop_log.read).name = "audio-codecs"
    /\ prop_log.written["audio-codecs"] = Some(<<"VP8", "OPUS">>)
    /\ unwrap(prop_log.read).value = <<"VP8", "OPUS">>
    /\ prop_log.written["video-codecs"] = Some(<<"AV2", "VP8">>)
    /\ settings.video_codecs = <<"VP8">>

\* ---------------------------------------------------------------------------
\* C25: the settings mutex is never held while the state mutex is acquired,
\* nor the state mutex while the settings mutex is acquired, so that no
\* interleaving of set_signaller, maybe_start_signaller, maybe_stop_signaller,
\* property access and callbacks ends with two threads each waiting for the
\* mutex the other holds.
\* ---------------------------------------------------------------------------
WaitsFor(t) ==
    IF thread_pc[t] = "connect_signaller" THEN "state"
    ELSE IF thread_pc[t] \in {"start_signaller", "stop_signaller"} THEN "settings"
    ELSE "none"

C25_NoDeadlock ==
    ~ \E t1, t2 \in Threads :
        /\ t1 # t2
        /\ WaitsFor(t1) = "state" /\ locks.state = t2
        /\ WaitsFor(t2) = "settings" /\ locks.settings = t1

\* ---------------------------------------------------------------------------
\* C26: the branch built for a routed raw track has one of four shapes, fixed
\* by whether the endpoint needs decoding and whether the filter request
\* returned a filter: raw -> endpoint; raw -> filter -> endpoint;
\* raw -> decode -> endpoint; raw -> parse -> filter -> decode -> endpoint.
\* A decode node is there exactly when decoding is needed, a parse node
\* exactly when decoding is needed and a filter was returned.
\* ---------------------------------------------------------------------------
Opt(present, node) == IF present THEN <<node>> ELSE <<>>

\* the nodes of a branch, from the raw track to the endpoint
Chain(b) ==
    <<"raw">> \o Opt(b.parsebin, "parse") \o Opt(b.filter, "filter")
        \o Opt(b.decodebin, "decode") \o <<"endpoint">>

\* the node that the ghost pad of the raw track is linked to
FirstLink(b) ==
    CASE b.linked_to = "parsebin" -> "parse"
      [] b.linked_to = "filter" -> "filter"
      [] b.linked_to = "decodebin" -> "decode"
      [] b.linked_to = "srcpad" -> "endpoint"
      [] OTHER -> "nothing"

ExpectedChain(needs_decode, has_filter) ==
    CASE ~needs_decode /\ ~has_filter -> <<"raw", "endpoint">>
      [] ~needs_decode /\ has_filter -> <<"raw", "filter", "endpoint">>
      [] needs_decode /\ ~has_filter -> <<"raw", "decode", "endpoint">>
      [] needs_decode /\ has_filter -> <<"raw", "parse", "filter", "decode", "endpoint">>

C26_BranchShape ==
    \A k \in DOMAIN branches :
        branches[k].srcpad # 0 =>
            \A i \in DOMAIN src_pads :
                src_pads[i].id = branches[k].srcpad =>
                    /\ Chain(branches[k])
                          = ExpectedChain(src_pads[i].needs_decoding, branches[k].filter)
                    /\ FirstLink(branches[k]) = Chain(branches[k])[2]
                    /\ branches[k].decodebin = src_pads[i].needs_decoding
                    /\ branches[k].parsebin
                          = (src_pads[i].needs_decoding /\ branches[k].filter)

C26_Witness ==
    \E k1, k2 \in DOMAIN branches :
        /\ branches[k1].srcpad # 0 /\ branches[k2].srcpad # 0
        /\ Chain(branches[k1]) = <<"raw", "parse", "filter", "decode", "endpoint">>
        /\ Chain(branches[k2]) = <<"raw", "filter", "endpoint">>

\* ---------------------------------------------------------------------------
\* C27: a source pad that needs decoding has no target from the construction
\* of its branch until the decodebin3 of one of its branches reports a source
\* pad, and then its target is that pad; building the branch and waiting for
\* the decoder post no error and make no handler panic.
\* ---------------------------------------------------------------------------
DecoderOf(pad, target) ==
    \E b \in DOMAIN branches :
        /\ target = Some(Target("decodebin_src", b))
        /\ branches[b].srcpad = pad.id
        /\ branches[b].decodebin

DecodingTargetInv ==
    \A i \in DOMAIN src_pads :
        src_pads[i].needs_decoding =>
            \/ src_pads[i].target = NoneOpt
            \/ DecoderOf(src_pads[i], src_pads[i].target)

DecodingTargetStep ==
    \A i \in DOMAIN src_pads :
        (i \in DOMAIN src_pads' /\ src_pads[i].needs_decoding) =>
            /\ (branches' # branches) =>
                  /\ src_pads'[i].target = src_pads[i].target
                  /\ errors' = errors
                  /\ ~panicked'
            /\ (src_pads'[i].target # src_pads[i].target) =>
                  /\ DecoderOf(src_pads[i], src_pads'[i].target)
                  /\ errors' = errors
                  /\ ~panicked'

LineOfRank(S, k) == CHOOSE i \in S : Cardinality({j \in S : j < i}) = k - 1

NewLegs == SubSeq(transceivers', Len(transceivers) + 1, Len(transceivers'))

C30_LegsAsRequested ==
    [][OfferStep =>
          /\ Len(transceivers') >= Len(transceivers)
          /\ SubSeq(transceivers', 1, Len(transceivers)) = transceivers
          /\ Len(NewLegs) = Len(src_pads') - Len(src_pads)
          /\ \A k \in DOMAIN NewLegs :
                /\ NewLegs[k].direction = "recvonly"
                /\ NewLegs[k].do_nack
                /\ NewLegs[k].fec_type = "ulp-red"
                /\ NewLegs[k].caps # <<>>
                /\ \A c \in DOMAIN NewLegs[k].caps :
                      /\ NewLegs[k].caps[c].name = RTP_NAME
                      /\ \A key \in DOMAIN NewLegs[k].caps[c].fields : ~IsRtcpKey(key)
          /\ ~panicked' =>
                LET offer == unwrap(remote_description')
                    acc == AcceptedLines(offer, all_codec_names(settings))
                IN  /\ Len(NewLegs) = Cardinality(acc)
                    /\ \A k \in DOMAIN NewLegs :
                          NewLegs[k].caps
                              = media_caps(offer.medias[LineOfRank(acc, k)],
                                           all_codec_names(settings))]_vars

C30_Witness ==
    /\ ~panicked
    /\ n_offers = 2
    /\ remote_description = Some(OfferA)
    /\ Len(transceivers) = 3
    /\ Len(src_pads) = 3
    /\ \A k \in DOMAIN transceivers : transceivers[k].do_nack

\* ---------------------------------------------------------------------------
\* C28: within a round the steps come in this order: the receive legs of all
\* accepted lines are requested, the remote description is set, the answer is
\* requested, and on a valid reply the answer is set as local description and
\* only then sent; an answer is sent at most once for each offer.
\* ---------------------------------------------------------------------------
LegsComplete ==
    Len(transceivers) - round.legs0
        = Cardinality(AcceptedLines(unwrap(round.offer), all_codec_names(settings)))

SetRemoteStep ==
    round.offer_pc = "set-remote-description" /\ round'.offer_pc # round.offer_pc

CreateAnswerStep == Len(promises') > Len(promises)

SetLocalStep == is_some(local_description') /\ local_description' # local_description

SendStep == Len(sent_sdp') > Len(sent_sdp)

RoundOrderStep ==
    /\ SetRemoteStep =>
          /\ LegsComplete
          /\ remote_description' = round.offer
          /\ promises' = promises
    /\ CreateAnswerStep =>
          /\ LegsComplete
          /\ remote_description = round.offer
          /\ promises' = Append(promises, [leg |-> unwrap(subscriber_pc),
                                           offer |-> unwrap(round.offer)])
    /\ SetLocalStep =>
          /\ is_some(round.answer)
          /\ local_description' = round.answer
          /\ sent_sdp' = sent_sdp
    /\ SendStep =>
          /\ round.local_for = round.answer
          /\ sent_sdp' = Append(sent_sdp, [session_id |-> session_id,
                                           sdp |-> unwrap(round.answer)])

AnswersPerOffer ==
    Len(sent_sdp) + Len(promises) + (IF round.answer_pc # "idle" THEN 1 ELSE 0)
        <= n_offers

C28_RoundOrder == []AnswersPerOffer /\ [][RoundOrderStep]_vars

C28_Witness ==
    /\ ~panicked
    /\ round.offer_pc = "idle" /\ round.answer_pc = "idle"
    /\ n_offers = 2
    /\ Len(sent_sdp) = 2
    /\ sent_sdp[1].sdp = Answer(OfferB)
    /\ sent_sdp[2].sdp = Answer(OfferA)
    /\ local_description = Some(Answer(OfferA))
    /\ remote_description = Some(OfferA)

\* ---------------------------------------------------------------------------
\* C29: the source pad of an accepted line is created and added to the
\* element before the receive leg of that line is requested, so that, between
\* prepare and teardown, every accepted line of the remote description has
\* its source pad; source pads leave the element only at teardown.
\* ---------------------------------------------------------------------------
StreamIdOfLine(i) ==
    Sha256Hex(SourceOf(settings.signaller)) \o ":" \o Decimal(i - 1)

\* between prepare and the first teardown after it
Prepared ==
    /\ is_some(subscriber_pc)
    /\ gst_state \in {"Paused", "Playing"}
    /\ \A c \in DOMAIN signaller_calls : signaller_calls[c] # "stop"

PadIds(pads) == [i \in DOMAIN pads |-> pads[i].id]

EndpointsOfAcceptedLines ==
    (Prepared /\ is_some(remote_description)) =>
        \A i \in AcceptedLines(unwrap(remote_description), all_codec_names(settings)) :
            \E p \in DOMAIN src_pads : src_pads[p].stream_id = StreamIdOfLine(i)

EndpointFirstStep ==
    /\ Len(transceivers') > Len(transceivers) =>
          \E p \in DOMAIN src_pads : src_pads[p].stream_id = StreamIdOfLine(round.k)
    /\ ~ (/\ Len(src_pads') >= Len(src_pads)
          /\ SubSeq(PadIds(src_pads'), 1, Len(src_pads)) = PadIds(src_pads)) =>
          /\ gst_state = "Paused" /\ gst_state' = "Ready"
          /\ src_pads' = <<>>
          /\ signaller_state' = "Stopped"

C29_EndpointBeforeLeg == []EndpointsOfAcceptedLines /\ [][EndpointFirstStep]_vars

C29_Witness ==
    /\ Prepared
    /\ gst_state = "Paused"
    /\ round.offer_pc = "idle"
    /\ n_offers = 1
    /\ remote_description = Some(OfferB)
    /\ Len(src_pads) = 2
    /\ Len(transceivers) = 2

\* ---------------------------------------------------------------------------
\* C31: a raw track whose transceiver has mline index k resolves to the source
\* pad that was created for media line k of the offer that is the remote
\* description, and to no other pad, also when the signaller was replaced
\* between the offer and the arrival of the track.
\* ---------------------------------------------------------------------------
\* a webrtcbin pad has just been handled
TrackArrival == Len(branches') = Len(branches) + 1

\* the position in src_pads of the pad that the last handled offer created for
\* its accepted line i: the pads of one offer are appended in line order
EndpointOfLine(acc, i) ==
    Len(src_pads) - Cardinality(acc) + Cardinality({j \in acc : j <= i})

C31_TrackResolvesToItsEndpoint ==
    [][TrackArrival =>
          LET b == branches'[Len(branches')]
              line == b.webrtcbin_pad + 1
              acc == AcceptedLines(unwrap(remote_description),
                                   all_codec_names(settings))
          IN  line \in acc =>
                  b.srcpad = src_pads[EndpointOfLine(acc, line)].id]_vars

\* ---------------------------------------------------------------------------
\* C32: a signal emitted by a signaller that set_signaller has replaced is not
\* handled by the element, and a signal of the current signaller is handled
\* exactly once.
\* ---------------------------------------------------------------------------
C32_OnlyCurrentSignallerHandled ==
    \A e \in DOMAIN sig_events :
        sig_events[e].handled
            = IF sig_events[e].from = sig_events[e].current THEN 1 ELSE 0

\* ---------------------------------------------------------------------------
\* C33: whenever the signaller state is Started both legs are stored in the
\* State, so that an offer, an answer promise or a remote candidate handled
\* while the signaller is started finds the leg it asks for: publisher_pc()
\* and subscriber_pc() do not panic.
\* ---------------------------------------------------------------------------
LegsExist == is_some(publisher_pc) /\ is_some(subscriber_pc)

StartedHasLegs == signaller_state = "Started" => LegsExist

\* a remote candidate has just been handled
IceStep == Len(ice_events') = Len(ice_events) + 1

\* an answer promise has just fired
AnswerStep == Len(promises') = Len(promises) - 1

LegFoundStep ==
    signaller_state = "Started" =>
        /\ IceStep => ice_events'[Len(ice_events')].outcome = "add-ice-candidate"
        /\ OfferStep => ~publisher_pc_panics(subscriber_pc)
        /\ AnswerStep => ~publisher_pc_panics(subscriber_pc)

C33_StartedSignallerHasLegs == []StartedHasLegs /\ [][LegFoundStep]_vars

C33_Witness ==
    /\ signaller_state = "Started"
    /\ gst_state = "Playing"
    /\ LegsExist
    /\ n_offers >= 1
    /\ sent_sdp # <<>>
    /\ \E e \in DOMAIN ice_events : ice_events[e].outcome = "add-ice-candidate"

\* ---------------------------------------------------------------------------
\* C34: while no teardown is running the names of the source pads are pairwise
\* distinct and, for each media kind, the pads of that kind carry the indices
\* 0, 1, .. in the order in which they were added, the counter of the kind
\* being the number of its pads; a media line of another kind adds no pad and
\* leaves the counters alone.
\* ---------------------------------------------------------------------------
\* the pads from position i on continue the numbering: v video pads and a
\* audio pads come before them; the result is the pair of final counts
RECURSIVE NumberedFrom(_, _, _, _)
NumberedFrom(pads, i, v, a) ==
    IF i > Len(pads) THEN <<TRUE, v, a>>
    ELSE IF pads[i].name = "video_" \o ToString(v)
         THEN NumberedFrom(pads, i + 1, v + 1, a)
         ELSE IF pads[i].name = "audio_" \o ToString(a)
              THEN NumberedFrom(pads, i + 1, v, a + 1)
              ELSE <<FALSE, v, a>>

NoTeardownRunning == \A t \in Threads : thread_pc[t] = "idle"

C34_EndpointNamesNumbered ==
    (NoTeardownRunning /\ ~panicked) =>
        /\ \A i, j \in DOMAIN src_pads :
              i # j => src_pads[i].name # src_pads[j].name
        /\ NumberedFrom(src_pads, 1, 0, 0) = <<TRUE, n_video_pads, n_audio_pads>>

\* ---------------------------------------------------------------------------
\* C35: the payloads of all media lines of one offer are judged against the
\* same set of codec names: handle_offer reads the codec lists of the settings
\* at most once, whatever is written to audio-codecs or video-codecs while it
\* runs.
\* ---------------------------------------------------------------------------
JudgedAlike ==
    \A i, j \in DOMAIN round.judged : round.judged[i] = round.judged[j]

\* the names are read only into an empty cell, and the cell is emptied only
\* when the next handle_offer begins
ReadOnceStep ==
    round'.codec_names # round.codec_names =>
        \/ ~is_some(round.codec_names) /\ round.offer_pc = "medias"
        \/ ~is_some(round'.codec_names) /\ round.offer_pc = "idle"

C35_OneAllowListPerOffer == []JudgedAlike /\ [][ReadOnceStep]_vars

C35_Witness ==
    /\ ~panicked
    /\ Len(round.judged) >= 3
    /\ round.offer_pc = "create_and_probe_src_pad"
    /\ round.judged[1] # all_codec_names(settings)
    /\ src_pads # <<>>

\* ---------------------------------------------------------------------------
\* C36: change_state returns a failure whenever the parent class failed the
\* transition, ReadyToPaused and PlayingToPaused included, and it starts the
\* signaller on PausedToPlaying only when the parent class succeeded.
\* ---------------------------------------------------------------------------
ParentFailureReported ==
    is_some(last_change) =>
        (~unwrap(last_change).parent_ok => unwrap(last_change).ret = "Failure")

\* start() has just been called
StartStep ==
    /\ signaller_state = "Stopped"
    /\ signaller_state' = "Started"

StartedAfterParent == StartStep => unwrap(last_change').parent_ok

C36_ParentFailureReported ==
    []ParentFailureReported /\ [][StartedAfterParent]_vars

\* ---------------------------------------------------------------------------
\* C37: every remote candidate the signaller delivers with an mline index is
\* added to the publisher leg, never to the subscriber leg, with the mline
\* index and the candidate string it came with, whatever its peer id; every
\* local candidate of either leg is relayed to the signaller with its mline
\* index and under the session id "-".
\* ---------------------------------------------------------------------------
RemoteAdded(e) ==
    (e.source = "signaller" /\ is_some(e.mline)) =>
        /\ e.outcome = "add-ice-candidate"
        /\ e.target = "publisher"
        /\ e.out_mline = e.mline
        /\ e.out_candidate = e.candidate

LocalRelayed(e) ==
    e.source \in Legs =>
        /\ e.outcome = "add_ice"
        /\ e.target = "signaller"
        /\ e.out_mline = e.mline
        /\ e.out_candidate = e.candidate
        /\ e.out_session = "-"

C37_CandidatesRelayed ==
    \A i \in DOMAIN ice_events :
        RemoteAdded(ice_events[i]) /\ LocalRelayed(ice_events[i])

\* ---------------------------------------------------------------------------
\* C38: in loopfilesrcbin a splitmuxsrc-fragment-started message that finds a
\* State (between start and stop) makes exactly one add-fragment emission, on
\* the splitmuxsrc of that State and with the location configured at that
\* moment, and is not passed to the parent bin; one that finds no State (after
\* stop) enqueues nothing; every other message is passed to the parent bin
\* unchanged and enqueues nothing.
\* ---------------------------------------------------------------------------
MessageReturned == Len(loop_handled') = Len(loop_handled) + 1

FragmentStartedStep ==
    /\ parent_messages' = parent_messages
    /\ IF is_some(loop_state)
       THEN add_fragment' = Append(add_fragment,
                                [splitmuxsrc |-> unwrap(loop_state).splitmuxsrc,
                                 location |-> loop_settings.location])
       ELSE add_fragment' = add_fragment

OtherMessageStep(msg) ==
    /\ parent_messages' = Append(parent_messages, msg)
    /\ add_fragment' = add_fragment

MessageStep ==
    MessageReturned =>
        LET msg == loop_handled'[Len(loop_handled')]
        IN  IF is_fragment_started(msg)
            THEN FragmentStartedStep
            ELSE OtherMessageStep(msg)

C38_FragmentStartedEnqueuesOnce == [][MessageStep]_vars

C38_Witness ==
    /\ Len(loop_handled) = 2
    /\ loop_handled[1] = FragmentStarted
    /\ loop_handled[2] = FragmentStarted
    /\ loop_state = NoneOpt
    /\ Len(add_fragment) = 2
    /\ add_fragment[1].location = ""
    /\ add_fragment[2].location = "loop.mkv"
    /\ parent_messages = <<>>

\* ---------------------------------------------------------------------------
\* C39: in loopfilesrcbin every thread that takes one of the two mutexes
\* while it holds the other takes them in the same order, and a thread in
\* start is never waiting for the settings mutex while a thread in
\* handle_message holds it and waits for the state mutex.
\* ---------------------------------------------------------------------------
LoopDeadlock ==
    /\ loop_pc.change_state = "start_settings"
    /\ loop_locks.state = "change_state"
    /\ loop_pc.streaming = "handle_message"
    /\ loop_locks.settings = "streaming"

C39_LocksTakenInOneOrder ==
    /\ Cardinality(loop_nested) <= 1
    /\ ~LoopDeadlock

====
